---- MODULE Spec2Model ----
(***************************************************************************)
(* Model of tachyon-node: the Oracle Tower (local vote history with        *)
(* lockouts), the consensus stage (start_consensus with query_validators,  *)
(* tally_votes, select_leader), verify_quorum, the sequencer               *)
(* (start_sequencer), the aggregator (start_aggregator, build_merkle_batch,*)
(* build_merkle_tree, get_merkle_proof) with the verifier's proof check,   *)
(* the CRDS store, the price fetcher (start_price_fetcher) and the robust  *)
(* fetcher (circuit breaker, fetch_price_robust, remove_outliers), and the *)
(* shutdown of the node's stage tasks (start_node).                        *)
(*                                                                         *)
(* Option<T> is modelled as a sequence: None is << >>, Some(x) is <<x>>.   *)
(* Vec and VecDeque are sequences; VecDeque's front is index 1.            *)
(* HashMap<K, V> is a function whose DOMAIN is the set of keys; where the  *)
(* code iterates a HashMap and the result depends on the order, the model  *)
(* takes every order.                                                      *)
(***************************************************************************)
EXTENDS Integers, Sequences, FiniteSets, TLC

VARIABLES
    \* ---- OracleTower (consensus/oracle_tower.rs) ----
    votes,              \* vote_state.votes: VecDeque<MerkleVote>, front first
    root_batch,         \* vote_state.root_batch: Option<BatchNumber>
    last_voted_batch,   \* vote_state.last_voted_batch: Option<BatchNumber>
    vote_history,       \* HashMap<BatchNumber, MerkleRoot>
    lockouts,           \* Vec<Lockout>
    tower_call,         \* the last call made on the tower and its outcome
    \* ---- settlement chain, as the nodes see it ----
    chain_slot,         \* what RpcClient::get_slot returns when it succeeds
    staker_accounts,    \* node -> its "staker-v2" account on the chain
    \* ---- per node: configuration, channels (main.rs), stages ----
    program_id_ok,      \* node -> config.program_id parses as a Pubkey
    batch_rx,           \* node -> batches queued for start_consensus
    consensus_rx,       \* node -> ConsensusResults queued for start_sequencer
    consensus_log,      \* every ConsensusResult emitted, with its node and slot
    sequencer_last,     \* node -> the last result start_sequencer handled
    \* ---- calls of the pure functions ----
    fn_call,            \* the last call: function, arguments, result
    \* ---- wall clock ----
    clock,              \* chrono::Utc::now().timestamp(), in seconds
    \* ---- aggregator (aggregator/mod.rs) ----
    config_min_publishers,     \* config.min_publishers
    price_cache,        \* HashMap<String, Vec<PriceUpdate>>
    received_since_tick, \* the updates received since the last tick, in order
    aggregator_last,    \* the last branch of the select! loop taken and its effect
    \* ---- CRDS (gossip/crds.rs) ----
    crds_max_entries,   \* Crds.max_entries
    crds_table,         \* Crds.table: HashMap<CrdsLabel, VersionedCrdsValue>
    crds_call,          \* the last call made on the store and its outcome
    \* ---- circuit breaker (fetcher/robust_fetcher.rs) ----
    breaker,            \* a CircuitBreaker
    breaker_call,       \* the last call made on the breaker and its outcome
    consecutive_failures, \* record_failure calls since the last record_success
    half_open_successes, \* record_success calls since the breaker last became HalfOpen
    \* ---- RobustFetcher (fetcher/robust_fetcher.rs) ----
    circuit_breakers,   \* RobustFetcher.circuit_breakers: HashMap<String, CircuitBreaker>
    robust_call,        \* the last fetch_price_robust call on the fetcher and its outcome
    \* ---- the tasks of start_node and their channels (main.rs) ----
    main_pc,            \* where start_node is: running, joining, stopped
    stage_pc,           \* stage -> where its task is: select, fetch, send, returned
    fetcher_left,       \* updates the fetcher has still to send in this tick
    chan_len,           \* channel -> number of messages queued in it
    send_released       \* a send on a full channel has failed as its receiver was gone

towerVars == <<votes, root_batch, last_voted_batch, vote_history, lockouts, tower_call>>

pipelineVars == <<chain_slot, staker_accounts, program_id_ok, batch_rx, consensus_rx,
                  consensus_log, sequencer_last>>

aggregatorVars == <<config_min_publishers, price_cache, received_since_tick, aggregator_last>>

crdsVars == <<crds_max_entries, crds_table, crds_call>>

robustVars == <<circuit_breakers, robust_call>>

breakerVars == <<breaker, breaker_call, consecutive_failures, half_open_successes, circuit_breakers, robust_call>>

shutdownVars == <<main_pc, stage_pc, fetcher_left, chan_len, send_released>>

vars == <<votes, root_batch, last_voted_batch, vote_history, lockouts, tower_call,
          chain_slot, staker_accounts, program_id_ok, batch_rx, consensus_rx,
          consensus_log, sequencer_last, fn_call, clock, config_min_publishers, price_cache,
          received_since_tick, aggregator_last, crds_max_entries, crds_table, crds_call,
          breaker, breaker_call, consecutive_failures, half_open_successes,
          circuit_breakers, robust_call,
          main_pc, stage_pc, fetcher_left, chan_len, send_released>>

(***************************************************************************)
(* Bounds of the model.                                                    *)
(***************************************************************************)
FirstSlot == 10        \* batch numbers (slots) range over FirstSlot..MaxSlot
MaxSlot == 14
MaxVotes == 3          \* record_vote is accepted at most this many times

Slots == FirstSlot..MaxSlot
Roots == {"R1", "R2"}
\* MerkleVote.timestamp is stored and never read by the tower.
Timestamps == {1000}

None == << >>
Some(x) == <<x>>

(***************************************************************************)
(* Oracle Tower                                                            *)
(***************************************************************************)
MaxRecentVotes == 32   \* push_vote keeps the last 32 votes
MaxLockouts == 32      \* update_lockouts keeps the last 32 lockouts

RECURSIVE Pow2(_)
Pow2(n) == IF n = 0 THEN 1 ELSE 2 * Pow2(n - 1)

MerkleVote(b, r, ts) == [batch_number |-> b, root |-> r, timestamp |-> ts]

Lockout_new(b) == [batch_number |-> b, confirmation_count |-> 1]

lockout_distance(l) == Pow2(l.confirmation_count)

is_locked_out_at(l, b) == b < l.batch_number + lockout_distance(l)

is_locked_out(lo, b) == \E i \in 1..Len(lo) : is_locked_out_at(lo[i], b)

\* can_vote that allows a second vote at a slot without comparing the roots.
can_vote_any_root(vh, lo, b, r) ==
    IF b \in DOMAIN vh
    THEN TRUE
    ELSE ~is_locked_out(lo, b)

can_vote(vh, lo, b, r) ==
    IF b \in DOMAIN vh
    THEN vh[b] = r
    ELSE ~is_locked_out(lo, b)

Truncate(s, n) == IF Len(s) > n THEN SubSeq(s, 1, n) ELSE s

push_vote(vs, vote) == Truncate(<<vote>> \o vs, MaxRecentVotes)

\* update_lockouts without the drain of the oldest lockouts.
update_lockouts_undrained(lo, b) ==
    LET pushed == Append(lo, Lockout_new(b))
    IN  [i \in 1..Len(pushed) |->
            IF pushed[i].batch_number < b
            THEN [pushed[i] EXCEPT !.confirmation_count = @ + 1]
            ELSE pushed[i]]

update_lockouts(lo, b) ==
    LET pushed == Append(lo, Lockout_new(b))
        bumped == [i \in 1..Len(pushed) |->
                     IF pushed[i].batch_number < b
                     THEN [pushed[i] EXCEPT !.confirmation_count = @ + 1]
                     ELSE pushed[i]]
    IN  IF Len(bumped) > MaxLockouts
        THEN SubSeq(bumped, Len(bumped) - MaxLockouts + 1, Len(bumped))
        ELSE bumped

\* OracleTower::new
TowerNew ==
    /\ votes = << >>
    /\ root_batch = None
    /\ last_voted_batch = None
    /\ vote_history = << >>
    /\ lockouts = << >>
    /\ tower_call = [op |-> "new"]

\* OracleTower::record_vote(batch_number, root, timestamp) when can_vote allows
\* the vote.
RecordVoteAccepted(b, r, ts) ==
    /\ votes' = push_vote(votes, MerkleVote(b, r, ts))
    /\ last_voted_batch' = Some(b)
    /\ vote_history' = [s \in DOMAIN vote_history \cup {b} |->
                          IF s = b THEN r ELSE vote_history[s]]
    /\ lockouts' = update_lockouts(lockouts, b)
    /\ tower_call' = [op |-> "record_vote", batch_number |-> b, root |-> r, ok |-> TRUE]
    /\ UNCHANGED <<clock, aggregatorVars, crdsVars, breakerVars, shutdownVars>>
    /\ UNCHANGED <<root_batch, pipelineVars, fn_call>>

\* OracleTower::record_vote when can_vote refuses the vote.
RecordVoteRefused(b, r) ==
    /\ tower_call' = [op |-> "record_vote", batch_number |-> b, root |-> r, ok |-> FALSE]
    /\ UNCHANGED <<clock, aggregatorVars, crdsVars, breakerVars, shutdownVars>>
    /\ UNCHANGED <<votes, root_batch, last_voted_batch, vote_history, lockouts,
                   pipelineVars, fn_call>>

\* OracleTower::record_vote(batch_number, root, timestamp), accepted at most
\* MaxVotes times.
RecordVote(b, r, ts) ==
    IF can_vote(vote_history, lockouts, b, r)
    THEN /\ Len(votes) < MaxVotes
         /\ RecordVoteAccepted(b, r, ts)
    ELSE RecordVoteRefused(b, r)

\* OracleTower::record_vote called at a slot no lower than the last slot
\* voted at, any number of times.
RecordVoteInOrder(b, r, ts) ==
    /\ last_voted_batch # None => b >= last_voted_batch[1]
    /\ IF can_vote(vote_history, lockouts, b, r)
       THEN RecordVoteAccepted(b, r, ts)
       ELSE RecordVoteRefused(b, r)

\* OracleTower::update_root(batch_number)
UpdateRootAbove(b) ==
    /\ root_batch' = Some(b)
    /\ lockouts' = SelectSeq(lockouts, LAMBDA l : l.batch_number > b)
    /\ vote_history' = [s \in {x \in DOMAIN vote_history : x > b} |-> vote_history[s]]
    /\ tower_call' = [op |-> "update_root", batch_number |-> b]
    /\ UNCHANGED <<clock, aggregatorVars, crdsVars, breakerVars, shutdownVars>>
    /\ UNCHANGED <<votes, last_voted_batch, pipelineVars, fn_call>>

UpdateRoot(b) ==
    /\ root_batch' = Some(b)
    /\ lockouts' = SelectSeq(lockouts, LAMBDA l : l.batch_number >= b)
    /\ vote_history' = [s \in {x \in DOMAIN vote_history : x >= b} |-> vote_history[s]]
    /\ tower_call' = [op |-> "update_root", batch_number |-> b]
    /\ UNCHANGED <<clock, aggregatorVars, crdsVars, breakerVars, shutdownVars>>
    /\ UNCHANGED <<votes, last_voted_batch, pipelineVars, fn_call>>


TowerNext ==
    \/ \E b \in Slots, r \in Roots, ts \in Timestamps : RecordVote(b, r, ts)
    \/ \E b \in Slots : UpdateRoot(b)

(***************************************************************************)
(* consensus/mod.rs: tally_votes, verify_quorum, select_leader             *)
(*                                                                         *)
(* A votes map is a function voter -> Vote; a validator list is a sequence *)
(* of <<pubkey, stake>> pairs. Pubkeys are numbers, ordered as the pubkey  *)
(* strings are. Stakes stay far below 2^64, so no u64 sum or product wraps.*)
(***************************************************************************)
LeaderSeedMultiplier == 12345

Vote(pubkey, root, stake) ==
    [node_pubkey |-> pubkey, root_hash |-> root, stake |-> stake, signature |-> << >>]

RECURSIVE SumStake(_, _)
SumStake(vs, voters) ==
    IF voters = {} THEN 0
    ELSE LET v == CHOOSE x \in voters : TRUE
         IN  vs[v].stake + SumStake(vs, voters \ {v})

\* root_stakes: HashMap<String, u64>, the stake summed per root hash
root_stakes(vs) ==
    [r \in {vs[v].root_hash : v \in DOMAIN vs} |->
        SumStake(vs, {v \in DOMAIN vs : vs[v].root_hash = r})]

quorum_threshold(total_stake) == (total_stake * 2) \div 3

\* tally_votes returns the first root, in the iteration order of the
\* root_stakes HashMap, whose stake reaches the threshold: the set of the
\* results some iteration order gives.
tally_votes(vs, total_stake) ==
    LET rs == root_stakes(vs)
        reached == {r \in DOMAIN rs : rs[r] >= quorum_threshold(total_stake)}
    IN  IF reached = {}
        THEN {[consensus_root |-> None, agreeing_stake |-> 0]}
        ELSE {[consensus_root |-> Some(r), agreeing_stake |-> rs[r]] : r \in reached}

verify_quorum(vs, total_stake) ==
    LET rs == root_stakes(vs)
    IN  \E r \in DOMAIN rs : rs[r] >= quorum_threshold(total_stake)

RECURSIVE CumulativeStake(_, _)
CumulativeStake(validators, i) ==
    IF i = 0 THEN 0 ELSE validators[i][2] + CumulativeStake(validators, i - 1)

select_leader(validators, slot) ==
    IF validators = << >> THEN None
    ELSE LET total_stake == CumulativeStake(validators, Len(validators))
         IN  IF total_stake = 0 THEN None
             ELSE LET target == (slot * LeaderSeedMultiplier) % total_stake
                      over == {i \in 1..Len(validators) :
                                  CumulativeStake(validators, i) > target}
                  IN  IF over # {}
                      THEN Some(validators[CHOOSE i \in over : \A j \in over : i <= j][1])
                      ELSE Some(validators[1][1])

(***************************************************************************)
(* Bounds and input sets of the consensus stage and of the function calls. *)
(***************************************************************************)
MaxChainSlot == 2      \* the chain's slot runs over 1..MaxChainSlot
MaxQueue == 2          \* messages in flight per channel
MaxBatches == 2        \* batches the aggregators emit in a run
NumPubkeys == 3        \* pubkeys 1..NumPubkeys in the arguments of the calls

\* Two nodes against one chain; a node's pubkey is its number.
Nodes == {1, 2}
Pubkeys == 1..NumPubkeys

\* Stake is counted in TACH (10^9 base units) in the consensus stage.
FallbackStake == 100000
StakeAmounts == {0, 100}
StakerAccounts ==
    {[kind |-> "short"]} \cup {[kind |-> "staker", staked_amount |-> k] : k \in StakeAmounts}

CallStakes == {0, 1, 2, 100, 200}
CallTotals == {0, 3, 4, 400, 500}
VoteMaps ==
    UNION {[voters -> {Vote(0, r, k) : r \in Roots, k \in CallStakes}] :
              voters \in SUBSET (1..2)}
CallVoteMaps ==
    {[v \in DOMAIN vs |-> Vote(v, vs[v].root_hash, vs[v].stake)] : vs \in VoteMaps}

LeaderStakes == {0, 100, 200, 300}
LeaderSlots == {0, 1, 2, 100}
ValidatorLists ==
    {vl \in UNION {[1..k -> Pubkeys \X LeaderStakes] : k \in 0..NumPubkeys} :
        \A i, j \in 1..Len(vl) : vl[i][1] = vl[j][1] => i = j}

(***************************************************************************)
(* consensus/mod.rs: start_consensus and query_validators                  *)
(***************************************************************************)
\* A MerkleBatch as the stages after the aggregator read it: its root, its
\* feeds (by asset) and its timestamp. The feeds and the timestamp go with the
\* root, which is a hash over them.
BatchFeeds(r) == IF r = "R1" THEN <<1>> ELSE <<1, 2>>

BatchTimestamp(r) == IF r = "R1" THEN 1000 ELSE 1001

Batch(r) == [root |-> r, feeds |-> BatchFeeds(r), timestamp |-> BatchTimestamp(r)]

\* query_validators. `account` is what get_account gave: None for Err (no
\* such account, or the RPC failed), Some(a) for Ok(a).
query_validators(n, account) ==
    IF account # None /\ account[1].kind = "staker"
    THEN [validators |-> <<<<n, account[1].staked_amount>>>>,
          total_stake |-> account[1].staked_amount]
    ELSE [validators |-> << >>, total_stake |-> 0]

\* What start_consensus takes as (validators, total_stake): Ok(result), or
\* on Err (program_id does not parse) the fallback "we're the only validator".
validators_or_fallback(n, account) ==
    IF program_id_ok[n]
    THEN query_validators(n, account)
    ELSE [validators |-> <<<<n, FallbackStake>>>>, total_stake |-> FallbackStake]

our_stake(n, validators) ==
    IF \E i \in 1..Len(validators) : validators[i][1] = n
    THEN validators[CHOOSE i \in 1..Len(validators) :
                       /\ validators[i][1] = n
                       /\ \A j \in 1..(i - 1) : validators[j][1] # n][2]
    ELSE 0

ConsensusResult(batch, vs, tally, total_stake, is_leader) ==
    [batch |-> batch, votes |-> vs, consensus_root |-> tally.consensus_root,
     agreeing_stake |-> tally.agreeing_stake, total_stake |-> total_stake,
     is_leader |-> is_leader]

QueuedBatches == LET RECURSIVE Q(_)
                     Q(S) == IF S = {} THEN 0
                             ELSE LET n == CHOOSE x \in S : TRUE
                                  IN  Len(batch_rx[n]) + Q(S \ {n})
                 IN  Q(Nodes)

PipelineInit ==
    /\ chain_slot = 1
    /\ staker_accounts \in [Nodes -> StakerAccounts]
    /\ program_id_ok \in [Nodes -> BOOLEAN]
    /\ batch_rx = [n \in Nodes |-> << >>]
    /\ consensus_rx = [n \in Nodes |-> << >>]
    /\ consensus_log = << >>
    /\ sequencer_last = [n \in Nodes |-> None]

\* The aggregator of node n sends a batch on batch_tx.
BatchArrives(n, r) ==
    /\ Len(batch_rx[n]) < MaxQueue
    /\ Len(consensus_log) + QueuedBatches < MaxBatches
    /\ batch_rx' = [batch_rx EXCEPT ![n] = Append(@, Batch(r))]
    /\ UNCHANGED <<clock, aggregatorVars, crdsVars, breakerVars, shutdownVars>>
    /\ UNCHANGED <<chain_slot, staker_accounts, program_id_ok, consensus_rx,
                   consensus_log, sequencer_last, towerVars, fn_call>>

\* The settlement chain moves to its next slot.
AdvanceSlot ==
    /\ chain_slot < MaxChainSlot
    /\ chain_slot' = chain_slot + 1
    /\ UNCHANGED <<clock, aggregatorVars, crdsVars, breakerVars, shutdownVars>>
    /\ UNCHANGED <<staker_accounts, program_id_ok, batch_rx, consensus_rx,
                   consensus_log, sequencer_last, towerVars, fn_call>>

\* start_consensus, the batch_rx.recv() arm, for one batch. slot_ok and
\* account_ok are the outcomes of the get_slot and get_account RPCs.
ConsensusStepNewestFirst(n, slot_ok, account_ok) ==
    /\ batch_rx[n] # << >>
    /\ Len(consensus_rx[n]) < MaxQueue
    /\ LET batch == batch_rx[n][Len(batch_rx[n])]
           current_slot == IF slot_ok THEN chain_slot ELSE 0
           q == validators_or_fallback(n,
                    IF account_ok THEN Some(staker_accounts[n]) ELSE None)
           vs == [p \in {n} |-> Vote(n, batch.root, our_stake(n, q.validators))]
           leader == select_leader(q.validators, current_slot)
           is_leader == IF leader # None THEN leader[1] = n ELSE FALSE
       IN  \E tally \in tally_votes(vs, q.total_stake) :
              LET result == ConsensusResult(batch, vs, tally, q.total_stake, is_leader)
              IN  /\ batch_rx' = [batch_rx EXCEPT ![n] = SubSeq(@, 1, Len(@) - 1)]
                  /\ consensus_rx' = [consensus_rx EXCEPT ![n] = Append(@, result)]
                  /\ consensus_log' = Append(consensus_log,
                         [node |-> n, slot |-> current_slot, slot_ok |-> slot_ok,
                          result |-> result])
    /\ UNCHANGED <<clock, aggregatorVars, crdsVars, breakerVars, shutdownVars>>
    /\ UNCHANGED <<chain_slot, staker_accounts, program_id_ok, sequencer_last,
                   towerVars, fn_call>>

ConsensusStep(n, slot_ok, account_ok) ==
    /\ batch_rx[n] # << >>
    /\ Len(consensus_rx[n]) < MaxQueue
    /\ LET batch == Head(batch_rx[n])
           current_slot == IF slot_ok THEN chain_slot ELSE 0
           q == validators_or_fallback(n,
                    IF account_ok THEN Some(staker_accounts[n]) ELSE None)
           vs == [p \in {n} |-> Vote(n, batch.root, our_stake(n, q.validators))]
           leader == select_leader(q.validators, current_slot)
           is_leader == IF leader # None THEN leader[1] = n ELSE FALSE
       IN  \E tally \in tally_votes(vs, q.total_stake) :
              LET result == ConsensusResult(batch, vs, tally, q.total_stake, is_leader)
              IN  /\ batch_rx' = [batch_rx EXCEPT ![n] = Tail(@)]
                  /\ consensus_rx' = [consensus_rx EXCEPT ![n] = Append(@, result)]
                  /\ consensus_log' = Append(consensus_log,
                         [node |-> n, slot |-> current_slot, slot_ok |-> slot_ok,
                          result |-> result])
    /\ UNCHANGED <<clock, aggregatorVars, crdsVars, breakerVars, shutdownVars>>
    /\ UNCHANGED <<chain_slot, staker_accounts, program_id_ok, sequencer_last,
                   towerVars, fn_call>>

(***************************************************************************)
(* sequencer/mod.rs: start_sequencer                                       *)
(***************************************************************************)
SignatureLen == 64     \* ConsensusVote.signature: [u8; 64]

\* submit_to_chain: the ConsensusVote it builds for node n. The root is
\* hex::decode of batch.root; a hex string and the bytes it encodes are the
\* same value.
our_vote(n, result) ==
    [validator |-> n, root |-> result.batch.root, stake |-> result.total_stake,
     signature |-> [i \in 1..SignatureLen |-> 0]]

\* submit_to_chain: the SubmitRootParams serialized into the instruction data.
SubmitRootParams(n, result) ==
    [root |-> result.batch.root, feed_count |-> Len(result.batch.feeds),
     timestamp |-> result.batch.timestamp, total_stake |-> result.total_stake,
     votes |-> <<our_vote(n, result)>>]

\* start_sequencer, the consensus_rx.recv() arm, for one result: it calls
\* submit_to_chain unless is_leader is false.
SequencerStep(n) ==
    /\ consensus_rx[n] # << >>
    /\ LET result == Head(consensus_rx[n])
       IN  sequencer_last' = [sequencer_last EXCEPT ![n] =
               Some([result |-> result, submitted |-> result.is_leader,
                     params |-> IF result.is_leader
                                THEN Some(SubmitRootParams(n, result)) ELSE None])]
    /\ consensus_rx' = [consensus_rx EXCEPT ![n] = Tail(@)]
    /\ UNCHANGED <<clock, aggregatorVars, crdsVars, breakerVars, shutdownVars>>
    /\ UNCHANGED <<chain_slot, staker_accounts, program_id_ok, batch_rx,
                   consensus_log, towerVars, fn_call>>

\* Any ConsensusResult value a holder of consensus_tx can send.
ResultInputs ==
    {ConsensusResult(Batch(r), vs, [consensus_root |-> c, agreeing_stake |-> a], t, l) :
        r \in Roots, vs \in {<< >>}, c \in {None, Some("R1")},
        a \in {100}, t \in {100}, l \in BOOLEAN}

\* A ConsensusResult is sent on consensus_tx.
SendResult(n, result) ==
    /\ Len(consensus_rx[n]) < MaxQueue
    /\ consensus_rx' = [consensus_rx EXCEPT ![n] = Append(@, result)]
    /\ UNCHANGED <<clock, aggregatorVars, crdsVars, breakerVars, shutdownVars>>
    /\ UNCHANGED <<chain_slot, staker_accounts, program_id_ok, batch_rx,
                   consensus_log, sequencer_last, towerVars, fn_call>>

(***************************************************************************)
(* Aggregator (aggregator/mod.rs) and the verifier's proof check           *)
(* (l2-contracts/programs/tachyon-verifier).                               *)
(*                                                                         *)
(* A hash is modelled by what was hashed: a record holding the algorithm,  *)
(* the encoding of the input and the input itself, so two hashes are equal *)
(* exactly when algorithm, encoding and input are equal. A hex string and  *)
(* the 32 bytes it encodes are the same value. The empty String is << >>.  *)
(***************************************************************************)
FirstTime == 100       \* chrono::Utc::now().timestamp() runs over FirstTime..MaxTime
MaxTime == 101
MaxUpdates == 2        \* updates the price cache holds between two ticks
MaxLeaves == 4         \* feeds of the batches given to get_merkle_proof

\* An asset id is modelled by its rank in string order.
Assets == {1, 2}
Reporters == {1, 2}
\* An f64 price is modelled by twice its value (2 is 1.0, 3 is 1.5), so
\* that the mean of two prices is exact.
Prices == {2, 4}
\* Timestamps of incoming updates: 61 s before FirstTime, or FirstTime.
UpdateTimes == {FirstTime - 61, FirstTime}
\* Values of config.min_publishers.
MinPublishers == {1, 2}

\* The fields of a PriceUpdate the aggregator reads or stores by name;
\* confidence and exchange are carried and never read.
PriceUpdate(asset, price, timestamp, node_pubkey) ==
    [asset |-> asset, price |-> price, timestamp |-> timestamp, node_pubkey |-> node_pubkey]

PriceUpdates ==
    {PriceUpdate(a, p, t, k) : a \in Assets, p \in Prices, t \in UpdateTimes, k \in Reporters}

FeedData(asset_id, price, confidence, timestamp, publishers) ==
    [asset_id |-> asset_id, price |-> price, confidence |-> confidence,
     timestamp |-> timestamp, publishers |-> publishers]

MerkleBatch(root, timestamp, feeds, tree) ==
    [root |-> root, timestamp |-> timestamp, feeds |-> feeds, tree |-> tree]

\* hex::encode(Sha256(data)): data is a list of the strings concatenated.
hash_data(data) == [alg |-> "sha256", data |-> data]

\* format!("{}:{}:{}:{}", asset_id, price, confidence, timestamp)
leaf_string(feed) ==
    [enc |-> "text", asset_id |-> feed.asset_id, price |-> feed.price,
     confidence |-> feed.confidence, timestamp |-> feed.timestamp]

\* One pass of the while loop: the level above current_level.
next_level(current_level) ==
    [k \in 1..((Len(current_level) + 1) \div 2) |->
        IF 2 * k <= Len(current_level)
        THEN hash_data(<<current_level[2 * k - 1], current_level[2 * k]>>)
        ELSE hash_data(<<current_level[2 * k - 1]>>)]

RECURSIVE extend_tree(_)
extend_tree(current_level) ==
    IF Len(current_level) > 1
    THEN next_level(current_level) \o extend_tree(next_level(current_level))
    ELSE << >>

build_merkle_tree(feeds) ==
    IF feeds = << >> THEN << >>
    ELSE LET current_level == [i \in 1..Len(feeds) |-> hash_data(<<leaf_string(feeds[i])>>)]
         IN  current_level \o extend_tree(current_level)

\* leaf_index, index and sibling_index count from 0 as in the code; the
\* model's sequences count from 1.
RECURSIVE proof_loop(_, _, _)
proof_loop(tree, index, level_size) ==
    IF level_size > 1
    THEN LET sibling_index == IF index % 2 = 0 THEN index + 1 ELSE index - 1
         IN  (IF sibling_index < level_size THEN <<tree[sibling_index + 1]>> ELSE << >>)
             \o proof_loop(tree, index \div 2, (level_size + 1) \div 2)
    ELSE << >>

get_merkle_proof(tree, leaf_index) ==
    proof_loop(tree, leaf_index, (Len(tree) + 1) \div 2)

\* keccak::hash(data).to_bytes()
keccak_hash(data) == [alg |-> "keccak", data |-> data]

\* asset_id bytes, then price, confidence and timestamp in little-endian.
leaf_data(asset_id, price, confidence, timestamp) ==
    [enc |-> "bytes", asset_id |-> asset_id, price |-> price,
     confidence |-> confidence, timestamp |-> timestamp]

\* The loop of verify_price over the proof. The byte order of two hashes
\* is not known to the model: the result is the set of the hashes the loop
\* can end with, taking either branch of the comparison at every element.
RECURSIVE climb(_, _)
climb(current_hashes, proof) ==
    IF proof = << >> THEN current_hashes
    ELSE climb({keccak_hash(<<h, Head(proof)>>) : h \in current_hashes}
               \cup {keccak_hash(<<Head(proof), h>>) : h \in current_hashes},
               Tail(proof))

\* verify_price up to the root comparison: TRUE when the proof is accepted
\* under some byte order of the hashes.
verify_price(asset_id, price, confidence, timestamp, merkle_root, proof) ==
    merkle_root \in climb({keccak_hash(<<leaf_data(asset_id, price, confidence, timestamp)>>)}, proof)

\* publisher_prices: the price of the last update of each publisher.
publisher_prices(updates) ==
    LET keys == {updates[i].node_pubkey : i \in 1..Len(updates)}
        last(k) == CHOOSE i \in 1..Len(updates) :
                      /\ updates[i].node_pubkey = k
                      /\ \A j \in (i + 1)..Len(updates) : updates[j].node_pubkey # k
    IN  [k \in keys |-> updates[last(k)].price]

\* The values of a map as a sorted Vec.
RECURSIVE sorted_values(_, _)
sorted_values(map, keys) ==
    IF keys = {} THEN << >>
    ELSE LET k == CHOOSE k \in keys : \A j \in keys : map[k] <= map[j]
         IN  <<map[k]>> \o sorted_values(map, keys \ {k})

RECURSIVE SumSeq(_, _)
SumSeq(s, i) == IF i = 0 THEN 0 ELSE s[i] + SumSeq(s, i - 1)

Isqrt(x) == CHOOSE r \in 0..x : r * r <= x /\ (r + 1) * (r + 1) > x

\* The median of a sorted Vec of prices, in the model's half units.
median(prices) ==
    IF Len(prices) % 2 = 0
    THEN LET mid == Len(prices) \div 2
         IN  (prices[mid] + prices[mid + 1]) \div 2
    ELSE prices[Len(prices) \div 2 + 1]

\* (median * 1_000_000_000.0) as i64, from half units.
price_i64(median_price) == median_price * 500000000

\* (confidence * 1_000_000_000.0) as i64. With n prices of sum S and
\* Q the sum of (n * p - S)^2, std_dev / mean is sqrt(Q / n) / S, so the
\* confidence is S / (S + sqrt(Q / n)); it is computed here to three
\* decimals, which is exact for the prices of the model.
conf_i64(prices) ==
    LET n == Len(prices)
        S == SumSeq(prices, n)
        Q == SumSeq([i \in 1..n |-> (n * prices[i] - S) * (n * prices[i] - S)], n)
    IN  IF Q > 0
        THEN ((S * 1000) \div (S + Isqrt(Q \div n))) * 1000000
        ELSE 1000000000

\* The orders in which a HashMap can yield the keys of a set.
IterationOrders(keys) ==
    {order \in [1..Cardinality(keys) -> keys] :
        \A i, j \in 1..Cardinality(keys) : order[i] = order[j] => i = j}

\* The body of the loop over price_cache for one asset that has enough
\* publishers: the feeds it can push, one for every order of the keys.
asset_feeds(asset, updates, now) ==
    LET prices == sorted_values(publisher_prices(updates), DOMAIN publisher_prices(updates))
    IN  {FeedData(asset, price_i64(median(prices)), conf_i64(prices), now, publishers) :
            publishers \in IterationOrders(DOMAIN publisher_prices(updates))}

has_enough_updates(updates, min_publishers) ==
    ~(Len(updates) < min_publishers)

has_enough_publishers(updates, min_publishers) ==
    ~(Cardinality(DOMAIN publisher_prices(updates)) < min_publishers)

\* The batches build_merkle_batch can return: one for every order in which
\* the HashMaps are iterated.
build_merkle_batch(cache, min_publishers, now) ==
    LET pushed == {a \in DOMAIN cache : has_enough_publishers(cache[a], min_publishers)}
        feed_lists == UNION {
            {feeds \in [1..Cardinality(pushed) -> UNION {asset_feeds(a, cache[a], now) : a \in pushed}] :
                \A i \in 1..Cardinality(pushed) : /\ feeds[i].asset_id = order[i]
                                                   /\ feeds[i] \in asset_feeds(order[i], cache[order[i]], now)} :
            order \in IterationOrders(pushed)}
    IN  {LET tree == build_merkle_tree(feeds)
             root == IF tree = << >> THEN << >> ELSE tree[Len(tree)]
         IN  MerkleBatch(root, now, feeds, tree) : feeds \in feed_lists}

CacheSize(cache) ==
    LET RECURSIVE Size(_)
        Size(assets) == IF assets = {} THEN 0
                        ELSE LET a == CHOOSE a \in assets : TRUE
                             IN  Len(cache[a]) + Size(assets \ {a})
    IN  Size(DOMAIN cache)

\* price_cache.entry(update.asset).or_insert_with(Vec::new).push(update)
cache_push(cache, update) ==
    IF update.asset \in DOMAIN cache
    THEN [cache EXCEPT ![update.asset] = Append(@, update)]
    ELSE [a \in DOMAIN cache \cup {update.asset} |->
             IF a = update.asset THEN <<update>> ELSE cache[a]]

EmptyCache == [a \in {} |-> << >>]

\* State after the start of start_aggregator.
AggregatorInit ==
    /\ config_min_publishers \in MinPublishers
    /\ price_cache = EmptyCache
    /\ received_since_tick = << >>
    /\ aggregator_last = [branch |-> "start"]

\* The price_rx branch: an update of the local fetcher, which stamps it
\* with the node's own key (node 1) and the time when it is fetched.
ReceiveLocal(update) ==
    /\ update.node_pubkey = 1
    /\ update.timestamp \in FirstTime..clock
    /\ CacheSize(price_cache) < MaxUpdates
    /\ price_cache' = cache_push(price_cache, update)
    /\ received_since_tick' = Append(received_since_tick, update)
    /\ aggregator_last' = [branch |-> "price_rx", update |-> update, now |-> clock]
    /\ UNCHANGED <<config_min_publishers, clock>>
    /\ UNCHANGED <<towerVars, pipelineVars, fn_call, crdsVars, breakerVars, shutdownVars>>

\* The gossip_rx branch: an update a peer sent.
ReceiveGossip(update) ==
    /\ CacheSize(price_cache) < MaxUpdates
    /\ price_cache' = cache_push(price_cache, update)
    /\ received_since_tick' = Append(received_since_tick, update)
    /\ aggregator_last' = [branch |-> "gossip_rx", update |-> update, now |-> clock]
    /\ UNCHANGED <<config_min_publishers, clock>>
    /\ UNCHANGED <<towerVars, pipelineVars, fn_call, crdsVars, breakerVars, shutdownVars>>

\* The ticker branch. sent lists the batches given to batch_tx.send.
TickKeepsCache ==
    /\ IF DOMAIN price_cache = {}
       THEN /\ aggregator_last' = [branch |-> "tick", received |-> received_since_tick,
                                   min_publishers |-> config_min_publishers, sent |-> << >>]
            /\ UNCHANGED price_cache
       ELSE \E batch \in build_merkle_batch(price_cache, config_min_publishers, clock) :
               /\ aggregator_last' = [branch |-> "tick", received |-> received_since_tick,
                                      min_publishers |-> config_min_publishers,
                                      sent |-> IF batch.feeds # << >> THEN <<batch>> ELSE << >>]
               /\ UNCHANGED price_cache
    /\ received_since_tick' = << >>
    /\ UNCHANGED <<config_min_publishers, clock>>
    /\ UNCHANGED <<towerVars, pipelineVars, fn_call, crdsVars, breakerVars, shutdownVars>>

Tick ==
    /\ IF DOMAIN price_cache = {}
       THEN /\ aggregator_last' = [branch |-> "tick", received |-> received_since_tick,
                                   min_publishers |-> config_min_publishers, sent |-> << >>]
            /\ UNCHANGED price_cache
       ELSE \E batch \in build_merkle_batch(price_cache, config_min_publishers, clock) :
               /\ aggregator_last' = [branch |-> "tick", received |-> received_since_tick,
                                      min_publishers |-> config_min_publishers,
                                      sent |-> IF batch.feeds # << >> THEN <<batch>> ELSE << >>]
               /\ price_cache' = EmptyCache
    /\ received_since_tick' = << >>
    /\ UNCHANGED <<config_min_publishers, clock>>
    /\ UNCHANGED <<towerVars, pipelineVars, fn_call, crdsVars, breakerVars, shutdownVars>>

TimePasses ==
    /\ clock < MaxTime
    /\ clock' = clock + 1
    /\ UNCHANGED <<config_min_publishers, price_cache, received_since_tick, aggregator_last>>
    /\ UNCHANGED <<towerVars, pipelineVars, fn_call, crdsVars, breakerVars, shutdownVars>>

(***************************************************************************)
(* CRDS store (gossip/crds.rs)                                             *)
(***************************************************************************)
MaxWallclock == 3      \* wallclocks range over 1..MaxWallclock
MaxEntries == 3        \* max_entries ranges over 1..MaxEntries

Wallclocks == 1..MaxWallclock

\* The payloads, without the socket addresses of ContactInfo.
ContactInfo(pubkey, version) ==
    [kind |-> "ContactInfo", pubkey |-> pubkey, version |-> version]

PriceData(pubkey, asset, price) ==
    [kind |-> "PriceData", pubkey |-> pubkey, asset |-> asset, price |-> price]

CrdsVote(pubkey, root, stake) ==
    [kind |-> "Vote", pubkey |-> pubkey, root |-> root, stake |-> stake]

StakeInfo(pubkey, stake, is_active) ==
    [kind |-> "StakeInfo", pubkey |-> pubkey, stake |-> stake, is_active |-> is_active]

\* CrdsValue::label
label(value) ==
    CASE value.kind = "ContactInfo" -> <<"ContactInfo", value.pubkey>>
      [] value.kind = "PriceData" -> <<"PriceData", value.pubkey, value.asset>>
      [] value.kind = "Vote" -> <<"Vote", value.pubkey, 0>>
      [] value.kind = "StakeInfo" -> <<"StakeInfo", value.pubkey>>

VersionedCrdsValue(value, wallclock, signature) ==
    [value |-> value, wallclock |-> wallclock, signature |-> signature]

\* The values given to insert: five labels, two payloads under one of them.
CrdsValues ==
    {ContactInfo(1, version) : version \in {1, 2}}
    \cup {ContactInfo(2, 1), PriceData(1, 1, 2), CrdsVote(1, "R1", 100), StakeInfo(1, 100, TRUE)}

VersionedCrdsValues ==
    {VersionedCrdsValue(value, wallclock, << >>) : value \in CrdsValues, wallclock \in Wallclocks}

\* Crds::should_override
should_override(existing, new) == new.wallclock > existing.wallclock

\* The table with the entry of label l set to v.
table_insert(table, l, v) ==
    [k \in DOMAIN table \cup {l} |-> IF k = l THEN v ELSE table[k]]

\* Crds::prune. The sort by wallclock is stable over the iteration order
\* of the HashMap, so among entries of equal wallclock any can come first:
\* the result is the set of the tables prune can leave.
prune_to_max_entries(table, max_entries) ==
    LET target_size == max_entries
        len == Cardinality(DOMAIN table)
        to_remove == IF len > target_size THEN len - target_size ELSE 0
        removable == {removed \in SUBSET DOMAIN table :
                        /\ Cardinality(removed) = to_remove
                        /\ \A r \in removed, k \in DOMAIN table \ removed :
                              table[r].wallclock <= table[k].wallclock}
    IN  {[k \in DOMAIN table \ removed |-> table[k]] : removed \in removable}

prune(table, max_entries) ==
    LET target_size == (max_entries * 80) \div 100
        len == Cardinality(DOMAIN table)
        to_remove == IF len > target_size THEN len - target_size ELSE 0
        removable == {removed \in SUBSET DOMAIN table :
                        /\ Cardinality(removed) = to_remove
                        /\ \A r \in removed, k \in DOMAIN table \ removed :
                              table[r].wallclock <= table[k].wallclock}
    IN  {[k \in DOMAIN table \ removed |-> table[k]] : removed \in removable}

\* Crds::insert: the outcomes, each the result and the table left.
insert(table, max_entries, value) ==
    LET l == label(value.value)
        inserted == table_insert(table, l, value)
    IN  IF l \in DOMAIN table /\ ~should_override(table[l], value)
        THEN {[ok |-> FALSE, pruned |-> FALSE, table |-> table]}
        ELSE IF Cardinality(DOMAIN inserted) > max_entries
             THEN {[ok |-> TRUE, pruned |-> TRUE, table |-> pruned] :
                      pruned \in prune(inserted, max_entries)}
             ELSE {[ok |-> TRUE, pruned |-> FALSE, table |-> inserted]}

EmptyTable == [l \in {} |-> << >>]

\* Crds::new
CrdsNew ==
    /\ crds_max_entries \in 1..MaxEntries
    /\ crds_table = EmptyTable
    /\ crds_call = [op |-> "new"]

Insert(value) ==
    /\ \E outcome \in insert(crds_table, crds_max_entries, value) :
          /\ crds_table' = outcome.table
          /\ crds_call' = [op |-> "insert", value |-> value, ok |-> outcome.ok,
                           pruned |-> outcome.pruned]
    /\ UNCHANGED crds_max_entries
    /\ UNCHANGED <<towerVars, pipelineVars, fn_call, clock, aggregatorVars, breakerVars, shutdownVars>>

(***************************************************************************)
(* Circuit breaker (fetcher/robust_fetcher.rs)                             *)
(***************************************************************************)
MaxThreshold == 3      \* threshold ranges over 1..MaxThreshold
MaxCount == 4          \* failure_count and success_count stay within 0..MaxCount
MaxBreakerTime == 162  \* the breaker's clock stays within FirstTime..MaxBreakerTime

\* Values of timeout_secs: 0, and the 60 of get_circuit_breaker.
TimeoutSecs == {0, 60}

\* CircuitBreaker::new
CircuitBreaker_new(threshold, timeout_secs) ==
    [state |-> "Closed", failure_count |-> 0, success_count |-> 0,
     threshold |-> threshold, timeout_secs |-> timeout_secs, last_failure_time |-> None]

\* CircuitBreaker::record_success
record_success_after_two(self) ==
    LET counted == [self EXCEPT !.success_count = @ + 1]
    IN  CASE counted.state = "HalfOpen" ->
                IF counted.success_count >= 2
                THEN [counted EXCEPT !.state = "Closed", !.failure_count = 0, !.success_count = 0]
                ELSE counted
          [] counted.state = "Closed" -> [counted EXCEPT !.failure_count = 0]
          [] OTHER -> counted

record_success(self) ==
    LET counted == [self EXCEPT !.success_count = @ + 1]
    IN  CASE counted.state = "HalfOpen" ->
                IF counted.success_count >= 3
                THEN [counted EXCEPT !.state = "Closed", !.failure_count = 0, !.success_count = 0]
                ELSE counted
          [] counted.state = "Closed" -> [counted EXCEPT !.failure_count = 0]
          [] OTHER -> counted

\* CircuitBreaker::record_failure
record_failure_above(self, now) ==
    LET counted == [self EXCEPT !.failure_count = @ + 1, !.last_failure_time = Some(now)]
    IN  IF counted.failure_count > counted.threshold
        THEN [counted EXCEPT !.state = "Open"]
        ELSE counted

record_failure(self, now) ==
    LET counted == [self EXCEPT !.failure_count = @ + 1, !.last_failure_time = Some(now)]
    IN  IF counted.failure_count >= counted.threshold
        THEN [counted EXCEPT !.state = "Open"]
        ELSE counted

\* CircuitBreaker::can_call: the value returned and the breaker left.
can_call_at_timeout(self, now) ==
    CASE self.state = "Closed" -> [result |-> TRUE, breaker |-> self]
      [] self.state = "Open" ->
            IF self.last_failure_time # None
            THEN IF now - self.last_failure_time[1] >= self.timeout_secs
                 THEN [result |-> TRUE,
                       breaker |-> [self EXCEPT !.state = "HalfOpen", !.success_count = 0]]
                 ELSE [result |-> FALSE, breaker |-> self]
            ELSE [result |-> FALSE, breaker |-> self]
      [] self.state = "HalfOpen" -> [result |-> TRUE, breaker |-> self]

can_call(self, now) ==
    CASE self.state = "Closed" -> [result |-> TRUE, breaker |-> self]
      [] self.state = "Open" ->
            IF self.last_failure_time # None
            THEN IF now - self.last_failure_time[1] > self.timeout_secs
                 THEN [result |-> TRUE,
                       breaker |-> [self EXCEPT !.state = "HalfOpen", !.success_count = 0]]
                 ELSE [result |-> FALSE, breaker |-> self]
            ELSE [result |-> FALSE, breaker |-> self]
      [] self.state = "HalfOpen" -> [result |-> TRUE, breaker |-> self]

\* RobustFetcher::new: no breaker yet
RobustFetcher_new ==
    /\ circuit_breakers = << >>
    /\ robust_call = [op |-> "new"]

\* RobustFetcher::new: max_retries and retry_delay_ms
max_retries == 3

retry_delay_ms == 100

\* What fetch_price_once returns: Err is None, Ok(price) is Some(price).
FetchResults == {None} \cup {Some(price) : price \in Prices}

\* What the successive fetch_price_once calls of one fetch_price_robust call
\* would return.
FetchOutcomes == [1..(max_retries + 1) -> FetchResults]

\* The retry loop of fetch_price_robust, entered with `retries` retries made
\* and `delay` ms as the next sleep: the result, the number of
\* fetch_price_once calls made from here on, the sleeps between them (ms),
\* the calls of record_success and record_failure made, and the breaker left.
RECURSIVE retry_loop(_, _, _, _, _)
retry_loop(self, outcomes, retries, delay, now) ==
    LET fetched == outcomes[retries + 1]
    IN  IF fetched # None
        THEN [result |-> fetched, attempts |-> 1, delays |-> << >>,
              recorded |-> <<"success">>, breaker |-> record_success(self)]
        ELSE IF retries < max_retries
             THEN LET rest == retry_loop(self, outcomes, retries + 1, delay * 2, now)
                  IN  [rest EXCEPT !.attempts = @ + 1, !.delays = <<delay>> \o @]
             ELSE [result |-> None, attempts |-> 1, delays |-> << >>,
                   recorded |-> <<"failure">>, breaker |-> record_failure(self, now)]

\* The mutant of fetch_price_robust that counts a refused call as a failure.
fetch_price_robust_refusal_recorded(self, outcomes, now) ==
    LET checked == can_call(self, now)
    IN  IF ~checked.result
        THEN [result |-> None, attempts |-> 0, delays |-> << >>,
              recorded |-> <<"failure">>, breaker |-> record_failure(checked.breaker, now)]
        ELSE retry_loop(checked.breaker, outcomes, 0, retry_delay_ms, now)

\* RobustFetcher::fetch_price_robust on the breaker of its exchange. The call
\* is taken to end within the second in which it began.
fetch_price_robust(self, outcomes, now) ==
    LET checked == can_call(self, now)
    IN  IF ~checked.result
        THEN [result |-> None, attempts |-> 0, delays |-> << >>,
              recorded |-> << >>, breaker |-> checked.breaker]
        ELSE retry_loop(checked.breaker, outcomes, 0, retry_delay_ms, now)

BreakerNew ==
    /\ \E threshold \in 1..MaxThreshold, timeout_secs \in TimeoutSecs :
          breaker = CircuitBreaker_new(threshold, timeout_secs)
    /\ breaker_call = [op |-> "new"]
    /\ consecutive_failures = 0
    /\ half_open_successes = 0
    /\ RobustFetcher_new

RecordSuccess ==
    /\ breaker.success_count < MaxCount
    /\ breaker' = record_success(breaker)
    /\ breaker_call' = [op |-> "record_success"]
    /\ consecutive_failures' = 0
    /\ half_open_successes' = IF breaker.state = "HalfOpen" THEN half_open_successes + 1
                                                            ELSE half_open_successes
    /\ UNCHANGED robustVars
    /\ UNCHANGED <<towerVars, pipelineVars, fn_call, clock, aggregatorVars, crdsVars, shutdownVars>>

RecordFailure ==
    /\ breaker.failure_count < MaxCount
    /\ breaker' = record_failure(breaker, clock)
    /\ breaker_call' = [op |-> "record_failure"]
    /\ consecutive_failures' = consecutive_failures + 1
    /\ UNCHANGED half_open_successes
    /\ UNCHANGED robustVars
    /\ UNCHANGED <<towerVars, pipelineVars, fn_call, clock, aggregatorVars, crdsVars, shutdownVars>>

CanCall ==
    /\ breaker' = can_call(breaker, clock).breaker
    /\ breaker_call' = [op |-> "can_call", result |-> can_call(breaker, clock).result]
    /\ UNCHANGED consecutive_failures
    /\ half_open_successes' = IF breaker.state = "Open" /\ breaker'.state = "HalfOpen"
                              THEN 0 ELSE half_open_successes
    /\ UNCHANGED robustVars
    /\ UNCHANGED <<towerVars, pipelineVars, fn_call, clock, aggregatorVars, crdsVars, shutdownVars>>

FetchPriceRobust(outcomes) ==
    LET checked == can_call(breaker, clock)
        call == fetch_price_robust(breaker, outcomes, clock)
        entered == IF breaker.state = "Open" /\ checked.breaker.state = "HalfOpen"
                   THEN 0 ELSE half_open_successes
    IN  /\ breaker.success_count < MaxCount
        /\ breaker.failure_count < MaxCount
        /\ breaker' = call.breaker
        /\ breaker_call' = [op |-> "fetch_price_robust", result |-> call.result,
                            attempts |-> call.attempts, delays |-> call.delays,
                            recorded |-> call.recorded]
        /\ consecutive_failures' =
              IF call.attempts = 0 THEN consecutive_failures
              ELSE IF call.result # None THEN 0 ELSE consecutive_failures + 1
        /\ half_open_successes' =
              IF call.result # None /\ checked.breaker.state = "HalfOpen"
              THEN entered + 1 ELSE entered
        /\ UNCHANGED robustVars
        /\ UNCHANGED <<towerVars, pipelineVars, fn_call, clock, aggregatorVars, crdsVars, shutdownVars>>

\* Time between two calls on the breaker: a minute, or a second more.
WaitSecs == {60, 61}

Wait(secs) ==
    /\ clock + secs <= MaxBreakerTime
    /\ clock' = clock + secs
    /\ UNCHANGED <<towerVars, pipelineVars, fn_call, aggregatorVars, crdsVars, breakerVars, shutdownVars>>

\* Exchanges and symbols fetch_price_robust is called with.
Exchanges == {"binance", "coinbase"}

Symbols == {"BTC/USD", "ETH/USD"}

\* The exchange answers every attempt of a call alike.
SteadyOutcomes == {outcomes \in FetchOutcomes : \A i \in DOMAIN outcomes : outcomes[i] = outcomes[1]}

\* RobustFetcher::get_circuit_breaker: the map with the breaker of the
\* exchange inserted if it was absent; the breaker returned is the entry of
\* the exchange. The symbol is no part of the key.
get_circuit_breaker(breakers, exchange) ==
    IF exchange \in DOMAIN breakers THEN breakers
    ELSE [e \in DOMAIN breakers \cup {exchange} |->
             IF e = exchange THEN CircuitBreaker_new(5, 60) ELSE breakers[e]]

\* The breaker a fetch_price_robust(symbol, exchange) call would check.
breaker_used(breakers, symbol, exchange) ==
    get_circuit_breaker(breakers, exchange)[exchange]

\* RobustFetcher::fetch_price_robust(symbol, exchange).
FetchFromExchange(symbol, exchange, outcomes) ==
    LET used == breaker_used(circuit_breakers, symbol, exchange)
        call == fetch_price_robust(used, outcomes, clock)
    IN  /\ used.success_count < MaxCount
        /\ circuit_breakers' =
              [get_circuit_breaker(circuit_breakers, exchange) EXCEPT ![exchange] = call.breaker]
        /\ robust_call' = [op |-> "fetch_price_robust", symbol |-> symbol,
                           exchange |-> exchange, result |-> call.result,
                           recorded |-> call.recorded]
        /\ UNCHANGED <<breaker, breaker_call, consecutive_failures, half_open_successes>>
        /\ UNCHANGED <<towerVars, pipelineVars, fn_call, clock, aggregatorVars, crdsVars, shutdownVars>>

(***************************************************************************)
(* Price fetcher (fetcher/mod.rs) and the RobustFetcher's price filters    *)
(*                                                                         *)
(* Prices are f64 in the code and whole numbers of USD here; the prices of *)
(* the model are chosen so that every mean taken is exact.                 *)
(***************************************************************************)
\* What an exchange can answer for a symbol: a negative price, zero, a price
\* below the band of BTC, one inside it, one above it.
ExchangePrices == {-100, 0, 100, 50000, 2000000}

\* What fetch_from_exchange returns for each exchange of an asset, in the
\* order of asset.exchanges: Err is None, Ok(price) is Some(price).
ExchangeResults == [1..Cardinality(Exchanges) -> {None} \cup {Some(price) : price \in ExchangePrices}]

\* RobustFetcher::validate_price, for the symbols of the model.
validate_price(symbol, price) ==
    IF price <= 0 THEN FALSE
    ELSE CASE symbol = "BTC/USD" -> price > 1000 /\ price < 1000000
           [] symbol = "ETH/USD" -> price > 10 /\ price < 100000
           [] OTHER -> price > 0 /\ price < 1000000

\* fetch_asset_prices: the prices of the exchanges that answered, in order.
fetch_asset_prices(results) ==
    LET answered == SelectSeq(results, LAMBDA r : r # None)
    IN  [i \in 1..Len(answered) |-> answered[i][1]]

\* sorted.sort_by(partial_cmp)
RECURSIVE sort_prices(_)
sort_prices(prices) ==
    IF prices = << >> THEN << >>
    ELSE LET i == CHOOSE i \in 1..Len(prices) : \A j \in 1..Len(prices) : prices[i] <= prices[j]
         IN  <<prices[i]>> \o sort_prices(SubSeq(prices, 1, i - 1) \o SubSeq(prices, i + 1, Len(prices)))

\* calculate_median_and_confidence: the median. The confidence is carried in
\* the update and never read by the model.
calculate_median(prices) ==
    LET sorted == sort_prices(prices)
    IN  IF Len(sorted) % 2 = 0
        THEN LET mid == Len(sorted) \div 2
             IN  (sorted[mid] + sorted[mid + 1]) \div 2
        ELSE sorted[Len(sorted) \div 2 + 1]

\* start_price_fetcher, the body of the tick for one asset: the update it
\* sends on price_tx, or None when it sends nothing.
fetcher_update(symbol, results, now, node_pubkey) ==
    LET prices == fetch_asset_prices(results)
    IN  IF prices = << >> THEN None
        ELSE Some(PriceUpdate(symbol, calculate_median(prices), now, node_pubkey))

\* robust_fetcher.rs: PriceData (the CRDS has a PriceData of its own)
FetchedPrice(price, exchange, timestamp) ==
    [price |-> price, exchange |-> exchange, timestamp |-> timestamp]

\* RobustFetcher::remove_outliers. With n prices of sum S, a price p is kept
\* when |p - S/n| <= 3 * sqrt(Q / n^3), Q the sum of (n * v - S)^2 over the
\* prices v, which is n * (n * p - S)^2 <= 9 * Q.
remove_outliers(prices) ==
    IF Len(prices) < 3 THEN prices
    ELSE LET n == Len(prices)
             values == [i \in 1..n |-> prices[i].price]
             S == SumSeq(values, n)
             Q == SumSeq([i \in 1..n |-> (n * values[i] - S) * (n * values[i] - S)], n)
         IN  SelectSeq(prices, LAMBDA p : n * (n * p.price - S) * (n * p.price - S) <= 9 * Q)

(***************************************************************************)
(* Shutdown (main.rs: start_node, and the select! loop of every stage)     *)
(*                                                                         *)
(* What the channels carry plays no part in shutdown: a channel is the     *)
(* number of messages queued in it. A Receiver is dropped, closing its     *)
(* channel, when the task that owns it returns. The broadcast shutdown     *)
(* message is pending for a stage from the broadcast until the stage       *)
(* receives it, which is when it returns.                                  *)
(***************************************************************************)
ChannelCapacity == 1   \* mpsc::channel(1000) and mpsc::channel(100), scaled down
MaxAssets == 1         \* config.assets holds 1..MaxAssets assets

Stages == {"metrics", "gossip", "fetcher", "aggregator", "consensus", "sequencer", "api"}

\* price_tx/price_rx, gossip_tx/gossip_rx, batch_tx/batch_rx,
\* consensus_tx/consensus_rx
Channels == {"price", "gossip", "batch", "consensus"}

\* The stage that owns the Receiver of a channel.
receiver_of(channel) ==
    CASE channel = "price" -> "aggregator"
      [] channel = "gossip" -> "aggregator"
      [] channel = "batch" -> "consensus"
      [] channel = "consensus" -> "sequencer"

is_closed(channel) == stage_pc[receiver_of(channel)] = "returned"

\* Sender::send(..).await is over: the message is queued, or the receiver is
\* gone and the send fails. Until then the sender waits.
send_completes_with_room(channel) == chan_len[channel] < ChannelCapacity

send_completes(channel) == is_closed(channel) \/ chan_len[channel] < ChannelCapacity

\* The channel after a send that has completed.
after_send(channel) ==
    IF is_closed(channel) THEN chan_len ELSE [chan_len EXCEPT ![channel] = @ + 1]

\* The stages whose start can fail before their loop: TcpListener::bind in
\* gossip and api, Pubkey::from_str in the sequencer.
FallibleStages == {"gossip", "sequencer", "api"}

\* start_node after the seven tasks are spawned.
ShutdownInit ==
    /\ main_pc = "running"
    /\ \E failed \in SUBSET FallibleStages :
          stage_pc = [stage \in Stages |-> IF stage \in failed THEN "returned" ELSE "select"]
    /\ fetcher_left = 0
    /\ chan_len = [channel \in Channels |-> 0]
    /\ send_released = FALSE

\* A send of `stage` on `channel` that completes; the stage goes to `next`.
Send(stage, channel, next) ==
    /\ stage_pc[stage] = "send"
    /\ send_completes(channel)
    /\ chan_len' = after_send(channel)
    /\ stage_pc' = [stage_pc EXCEPT ![stage] = next]
    /\ send_released' = (send_released \/
                           (is_closed(channel) /\ chan_len[channel] = ChannelCapacity))

\* start_price_fetcher: ticker.tick(); the fetcher starts its HTTP requests
FetcherTick ==
    /\ stage_pc["fetcher"] = "select"
    /\ stage_pc' = [stage_pc EXCEPT !["fetcher"] = "fetch"]
    /\ UNCHANGED <<main_pc, fetcher_left, chan_len, send_released>>
    /\ UNCHANGED <<towerVars, pipelineVars, fn_call, clock, aggregatorVars, crdsVars, breakerVars>>

\* start_price_fetcher: fetch_asset_prices has returned, with prices for
\* `assets` of the assets
FetcherFetched(assets) ==
    /\ stage_pc["fetcher"] = "fetch"
    /\ stage_pc' = [stage_pc EXCEPT !["fetcher"] = IF assets = 0 THEN "select" ELSE "send"]
    /\ fetcher_left' = assets
    /\ UNCHANGED <<main_pc, chan_len, send_released>>
    /\ UNCHANGED <<towerVars, pipelineVars, fn_call, clock, aggregatorVars, crdsVars, breakerVars>>

\* start_price_fetcher: price_tx.send(update).await, for one asset
FetcherSend ==
    /\ Send("fetcher", "price", IF fetcher_left = 1 THEN "select" ELSE "send")
    /\ fetcher_left' = fetcher_left - 1
    /\ UNCHANGED main_pc
    /\ UNCHANGED <<towerVars, pipelineVars, fn_call, clock, aggregatorVars, crdsVars, breakerVars>>

\* handle_peer, a task the gossip stage spawned and nobody joins:
\* gossip_tx.send(update).await
PeerSend ==
    /\ ~is_closed("gossip")
    /\ chan_len["gossip"] < ChannelCapacity
    /\ chan_len' = [chan_len EXCEPT !["gossip"] = @ + 1]
    /\ UNCHANGED <<main_pc, stage_pc, fetcher_left, send_released>>
    /\ UNCHANGED <<towerVars, pipelineVars, fn_call, clock, aggregatorVars, crdsVars, breakerVars>>

\* A select! branch `Some(x) = rx.recv()` of `stage`; the stage goes to `next`.
Recv(stage, channel, next) ==
    /\ stage_pc[stage] = "select"
    /\ chan_len[channel] > 0
    /\ chan_len' = [chan_len EXCEPT ![channel] = @ - 1]
    /\ stage_pc' = [stage_pc EXCEPT ![stage] = next]

\* start_aggregator: Some(update) = price_rx.recv() or gossip_rx.recv()
AggregatorRecv(channel) ==
    /\ channel \in {"price", "gossip"}
    /\ Recv("aggregator", channel, "select")
    /\ UNCHANGED <<main_pc, fetcher_left, send_released>>
    /\ UNCHANGED <<towerVars, pipelineVars, fn_call, clock, aggregatorVars, crdsVars, breakerVars>>

\* start_aggregator: ticker.tick() that builds a batch with feeds
AggregatorTick ==
    /\ stage_pc["aggregator"] = "select"
    /\ stage_pc' = [stage_pc EXCEPT !["aggregator"] = "send"]
    /\ UNCHANGED <<main_pc, fetcher_left, chan_len, send_released>>
    /\ UNCHANGED <<towerVars, pipelineVars, fn_call, clock, aggregatorVars, crdsVars, breakerVars>>

\* start_aggregator: batch_tx.send(batch).await
AggregatorSend ==
    /\ Send("aggregator", "batch", "select")
    /\ UNCHANGED <<main_pc, fetcher_left>>
    /\ UNCHANGED <<towerVars, pipelineVars, fn_call, clock, aggregatorVars, crdsVars, breakerVars>>

\* start_consensus: Some(batch) = batch_rx.recv(), up to the send
ConsensusRecv ==
    /\ Recv("consensus", "batch", "send")
    /\ UNCHANGED <<main_pc, fetcher_left, send_released>>
    /\ UNCHANGED <<towerVars, pipelineVars, fn_call, clock, aggregatorVars, crdsVars, breakerVars>>

\* start_consensus: consensus_tx.send(result).await
ConsensusSend ==
    /\ Send("consensus", "consensus", "select")
    /\ UNCHANGED <<main_pc, fetcher_left>>
    /\ UNCHANGED <<towerVars, pipelineVars, fn_call, clock, aggregatorVars, crdsVars, breakerVars>>

\* start_sequencer: Some(result) = consensus_rx.recv(), with the submission
SequencerRecv ==
    /\ Recv("sequencer", "consensus", "select")
    /\ UNCHANGED <<main_pc, fetcher_left, send_released>>
    /\ UNCHANGED <<towerVars, pipelineVars, fn_call, clock, aggregatorVars, crdsVars, breakerVars>>

\* The `_ = shutdown.recv()` branch of a stage's select!, or the
\* shutdown.recv().await of metrics, gossip and api: the stage returns.
StageShutdown(stage) ==
    /\ main_pc # "running"
    /\ stage_pc[stage] = "select"
    /\ stage_pc' = [stage_pc EXCEPT ![stage] = "returned"]
    /\ UNCHANGED <<main_pc, fetcher_left, chan_len, send_released>>
    /\ UNCHANGED <<towerVars, pipelineVars, fn_call, clock, aggregatorVars, crdsVars, breakerVars>>

\* start_node: ctrl_c, then shutdown_tx.send(())
Broadcast ==
    /\ main_pc = "running"
    /\ main_pc' = "joining"
    /\ UNCHANGED <<stage_pc, fetcher_left, chan_len, send_released>>
    /\ UNCHANGED <<towerVars, pipelineVars, fn_call, clock, aggregatorVars, crdsVars, breakerVars>>

\* start_node: tokio::join! of the seven handles completes
Join ==
    /\ main_pc = "joining"
    /\ \A stage \in Stages : stage_pc[stage] = "returned"
    /\ main_pc' = "stopped"
    /\ UNCHANGED <<stage_pc, fetcher_left, chan_len, send_released>>
    /\ UNCHANGED <<towerVars, pipelineVars, fn_call, clock, aggregatorVars, crdsVars, breakerVars>>

(***************************************************************************)
(* Calls of the pure functions                                             *)
(***************************************************************************)
NoCall == fn_call = [fn |-> "none"]

\* One call per run, on any arguments.
TallyVotesCall ==
    /\ NoCall
    /\ \E vs \in CallVoteMaps, total_stake \in CallTotals :
          \E res \in tally_votes(vs, total_stake) :
             fn_call' = [fn |-> "tally_votes", votes |-> vs,
                         total_stake |-> total_stake, result |-> res]
    /\ UNCHANGED <<clock, aggregatorVars, crdsVars, breakerVars, shutdownVars>>
    /\ UNCHANGED <<towerVars, pipelineVars>>

VerifyQuorumCall ==
    /\ NoCall
    /\ \E vs \in CallVoteMaps, total_stake \in CallTotals :
          fn_call' = [fn |-> "verify_quorum", votes |-> vs,
                      total_stake |-> total_stake,
                      result |-> verify_quorum(vs, total_stake)]
    /\ UNCHANGED <<clock, aggregatorVars, crdsVars, breakerVars, shutdownVars>>
    /\ UNCHANGED <<towerVars, pipelineVars>>

SelectLeaderCall ==
    /\ NoCall
    /\ \E validators \in ValidatorLists, slot \in LeaderSlots :
          fn_call' = [fn |-> "select_leader", validators |-> validators,
                      slot |-> slot, result |-> select_leader(validators, slot)]
    /\ UNCHANGED <<clock, aggregatorVars, crdsVars, breakerVars, shutdownVars>>
    /\ UNCHANGED <<towerVars, pipelineVars>>

\* The caches two aggregators can hold after receiving points stamped
\* FirstTime, at most one point per reporter and asset.
PointCaches ==
    LET points == {u \in PriceUpdates : u.timestamp = FirstTime}
        vecs == UNION {[1..k -> points] : k \in 1..Cardinality(Reporters)}
    IN  {cache \in UNION {[assets -> vecs] : assets \in SUBSET Assets} :
            \A a \in DOMAIN cache :
               \A i, j \in 1..Len(cache[a]) :
                  /\ cache[a][i].asset = a
                  /\ cache[a][i].node_pubkey = cache[a][j].node_pubkey => i = j}

\* The set of the points of a cache.
Points(cache) == UNION {{cache[a][i] : i \in 1..Len(cache[a])} : a \in DOMAIN cache}

\* Two aggregators build a batch in the same tick, each from its own cache,
\* the two caches holding the same points.
BuildMerkleBatchCall ==
    /\ NoCall
    /\ \E first \in PointCaches, second \in PointCaches, min \in MinPublishers :
          /\ Points(first) = Points(second)
          /\ \E b1 \in build_merkle_batch(first, min, clock),
                b2 \in build_merkle_batch(second, min, clock) :
                fn_call' = [fn |-> "build_merkle_batch", caches |-> <<first, second>>,
                            min_publishers |-> min, batches |-> <<b1, b2>>]
    /\ UNCHANGED <<clock, aggregatorVars, crdsVars, breakerVars, shutdownVars>>
    /\ UNCHANGED <<towerVars, pipelineVars>>

\* Lists of one to MaxLeaves feeds, of assets 1, 2, ...
FeedLists ==
    {[i \in 1..k |-> FeedData(i, p, 1000000000, FirstTime, <<1>>)] :
        k \in 1..MaxLeaves, p \in {1000000000, 2000000000}}

\* get_merkle_proof on the tree of a list of feeds, for one of its leaves.
GetMerkleProofCall ==
    /\ NoCall
    /\ \E feeds \in FeedLists :
          \E leaf_index \in 0..(Len(feeds) - 1) :
             fn_call' = [fn |-> "get_merkle_proof", feeds |-> feeds,
                         tree |-> build_merkle_tree(feeds), leaf_index |-> leaf_index,
                         proof |-> get_merkle_proof(build_merkle_tree(feeds), leaf_index)]
    /\ UNCHANGED <<clock, aggregatorVars, crdsVars, breakerVars, shutdownVars>>
    /\ UNCHANGED <<towerVars, pipelineVars>>

\* Crds::insert of each value of a list in turn, from a given table: the
\* tables that can be left.
RECURSIVE insert_each(_, _, _)
insert_each(table, max_entries, values) ==
    IF values = << >> THEN {table}
    ELSE UNION {insert_each(outcome.table, max_entries, Tail(values)) :
                   outcome \in insert(table, max_entries, Head(values))}

\* Values under the one label ContactInfo(1): two payloads, any wallclock.
SameLabelValues ==
    {VersionedCrdsValue(ContactInfo(1, version), wallclock, << >>) :
        version \in {1, 2}, wallclock \in Wallclocks}

\* The orders in which the values of a set can arrive.
Orders(values) ==
    {order \in [1..Cardinality(values) -> values] :
        \A i, j \in 1..Cardinality(values) : order[i] = order[j] => i = j}

\* Two new stores receive the same two or three values, each in an order of
\* its own.
CrdsInsertOrdersCall ==
    /\ NoCall
    /\ \E max_entries \in 1..MaxEntries, values \in SUBSET SameLabelValues :
          /\ Cardinality(values) \in {2, 3}
          /\ \E first \in Orders(values), second \in Orders(values) :
                fn_call' = [fn |-> "Crds::insert", max_entries |-> max_entries,
                            orders |-> <<first, second>>,
                            tables |-> <<insert_each(EmptyTable, max_entries, first),
                                         insert_each(EmptyTable, max_entries, second)>>]
    /\ UNCHANGED <<clock, aggregatorVars, crdsVars, breakerVars, shutdownVars>>
    /\ UNCHANGED <<towerVars, pipelineVars>>

\* Crds::insert of each value of a list in turn, from a given table: the
\* results the calls can give, true for Ok, one list for each way the
\* prunings can go.
RECURSIVE insert_results(_, _, _)
insert_results(table, max_entries, values) ==
    IF values = << >> THEN {<< >>}
    ELSE UNION {{<<outcome.ok>> \o rest :
                    rest \in insert_results(outcome.table, max_entries, Tail(values))} :
                   outcome \in insert(table, max_entries, Head(values))}

\* A new store is given three values.
CrdsInsertSequenceCall ==
    /\ NoCall
    /\ \E max_entries \in 1..MaxEntries, values \in [1..3 -> VersionedCrdsValues] :
          \E results \in insert_results(EmptyTable, max_entries, values) :
             fn_call' = [fn |-> "Crds::insert sequence", max_entries |-> max_entries,
                         values |-> values, results |-> results]
    /\ UNCHANGED <<clock, aggregatorVars, crdsVars, breakerVars, shutdownVars>>
    /\ UNCHANGED <<towerVars, pipelineVars>>

\* One asset of one tick of start_price_fetcher, for any answers of the
\* exchanges.
FetcherUpdateCall ==
    /\ NoCall
    /\ \E symbol \in Symbols, results \in ExchangeResults, node \in Nodes :
          fn_call' = [fn |-> "start_price_fetcher", symbol |-> symbol,
                      prices |-> fetch_asset_prices(results),
                      update |-> fetcher_update(symbol, results, clock, node)]
    /\ UNCHANGED <<clock, aggregatorVars, crdsVars, breakerVars, shutdownVars>>
    /\ UNCHANGED <<towerVars, pipelineVars>>

MaxPrices == 4         \* prices given to remove_outliers

\* Lists of up to MaxPrices prices, each from its own exchange.
PriceLists ==
    UNION {[1..k -> {100, 101, 102, 200}] : k \in 0..MaxPrices}

\* remove_outliers on a list of prices.
RemoveOutliersCall ==
    /\ NoCall
    /\ \E values \in PriceLists :
          LET prices == [i \in 1..Len(values) |-> FetchedPrice(values[i], i, 1000)]
          IN  fn_call' = [fn |-> "remove_outliers", prices |-> prices,
                          filtered |-> remove_outliers(prices)]
    /\ UNCHANGED <<clock, aggregatorVars, crdsVars, breakerVars, shutdownVars>>
    /\ UNCHANGED <<towerVars, pipelineVars>>

(***************************************************************************)
(* Specifications                                                          *)
(***************************************************************************)
ClockStart == clock = FirstTime

AggregatorIdle ==
    /\ config_min_publishers = 1
    /\ price_cache = EmptyCache
    /\ received_since_tick = << >>
    /\ aggregator_last = [branch |-> "start"]

CrdsIdle ==
    /\ crds_max_entries = 1
    /\ crds_table = EmptyTable
    /\ crds_call = [op |-> "new"]

ShutdownIdle ==
    /\ main_pc = "running"
    /\ stage_pc = [stage \in Stages |-> "select"]
    /\ fetcher_left = 0
    /\ chan_len = [channel \in Channels |-> 0]
    /\ send_released = FALSE

BreakerIdle ==
    /\ breaker = CircuitBreaker_new(1, 60)
    /\ breaker_call = [op |-> "new"]
    /\ consecutive_failures = 0
    /\ half_open_successes = 0
    /\ RobustFetcher_new

PipelineIdle ==
    /\ chain_slot = 1
    /\ staker_accounts = [n \in Nodes |-> [kind |-> "short"]]
    /\ program_id_ok = [n \in Nodes |-> TRUE]
    /\ batch_rx = [n \in Nodes |-> << >>]
    /\ consensus_rx = [n \in Nodes |-> << >>]
    /\ consensus_log = << >>
    /\ sequencer_last = [n \in Nodes |-> None]

\* The tower under any sequence of record_vote and update_root calls.
TowerInit ==
    TowerNew /\ PipelineIdle /\ NoCall /\ ClockStart /\ AggregatorIdle /\ CrdsIdle /\ BreakerIdle /\ ShutdownIdle

SpecTower == TowerInit /\ [][TowerNext]_vars

\* The slots of the calls made in slot order: one slot, and the first slot
\* that a single vote there does not lock out.
InOrderSlots == {FirstSlot, FirstSlot + 2}

TowerInOrderNext ==
    \E b \in InOrderSlots, r \in Roots, ts \in Timestamps : RecordVoteInOrder(b, r, ts)

\* The tower under any number of record_vote calls made in slot order, with
\* no update_root call.
TowerInOrderInit ==
    TowerNew /\ PipelineIdle /\ NoCall /\ ClockStart /\ AggregatorIdle /\ CrdsIdle /\ BreakerIdle /\ ShutdownIdle

SpecTowerInOrder == TowerInOrderInit /\ [][TowerInOrderNext]_vars

TowerLongNext ==
    \/ \E b \in InOrderSlots, ts \in Timestamps : RecordVoteInOrder(b, "R1", ts)
    \/ \E b \in InOrderSlots : UpdateRoot(b)

\* The tower under any number of record_vote calls made in slot order for
\* one root, and update_root calls.
TowerLongInit ==
    TowerNew /\ PipelineIdle /\ NoCall /\ ClockStart /\ AggregatorIdle /\ CrdsIdle /\ BreakerIdle /\ ShutdownIdle

SpecTowerLong == TowerLongInit /\ [][TowerLongNext]_vars

ConsensusNext ==
    \/ \E n \in Nodes, r \in Roots : BatchArrives(n, r)
    \/ AdvanceSlot
    \/ \E n \in Nodes, slot_ok \in BOOLEAN, account_ok \in BOOLEAN :
          ConsensusStep(n, slot_ok, account_ok)
    \/ \E n \in Nodes : SequencerStep(n)

\* The consensus and sequencer stages of every node against one chain.
ConsensusInit ==
    PipelineInit /\ TowerNew /\ NoCall /\ ClockStart /\ AggregatorIdle /\ CrdsIdle /\ BreakerIdle /\ ShutdownIdle

SpecConsensus == ConsensusInit /\ [][ConsensusNext]_vars

\* The consensus and sequencer stages of every node, each node a staker with
\* a program id that parses.
ConsensusStageInit ==
    /\ PipelineInit /\ TowerNew /\ NoCall /\ ClockStart /\ AggregatorIdle /\ CrdsIdle
    /\ BreakerIdle /\ ShutdownIdle
    /\ staker_accounts = [n \in Nodes |-> [kind |-> "staker", staked_amount |-> 100]]
    /\ program_id_ok = [n \in Nodes |-> TRUE]

SpecConsensusStage == ConsensusStageInit /\ [][ConsensusNext]_vars

SequencerNext ==
    \/ \E n \in Nodes, result \in ResultInputs : SendResult(n, result)
    \/ \E n \in Nodes : SequencerStep(n)

\* The sequencer stage alone, fed any ConsensusResult.
SequencerInit ==
    PipelineIdle /\ TowerNew /\ NoCall /\ ClockStart /\ AggregatorIdle /\ CrdsIdle /\ BreakerIdle /\ ShutdownIdle

SpecSequencer == SequencerInit /\ [][SequencerNext]_vars

FnsNext ==
    \/ TallyVotesCall
    \/ VerifyQuorumCall
    \/ SelectLeaderCall
    \/ BuildMerkleBatchCall
    \/ GetMerkleProofCall
    \/ FetcherUpdateCall
    \/ RemoveOutliersCall
    \/ CrdsInsertOrdersCall
    \/ CrdsInsertSequenceCall

\* The pure functions on any arguments.
FnsInit ==
    NoCall /\ TowerNew /\ PipelineIdle /\ ClockStart /\ AggregatorIdle /\ CrdsIdle /\ BreakerIdle /\ ShutdownIdle

SpecFns == FnsInit /\ [][FnsNext]_vars

AggregatorNext ==
    \/ \E update \in PriceUpdates : ReceiveLocal(update)
    \/ \E update \in PriceUpdates : ReceiveGossip(update)
    \/ Tick
    \/ TimePasses

\* The aggregator stage of node 1, fed any updates.
AggregatorSpecInit ==
    AggregatorInit /\ ClockStart /\ TowerNew /\ PipelineIdle /\ NoCall /\ CrdsIdle /\ BreakerIdle /\ ShutdownIdle

SpecAggregator == AggregatorSpecInit /\ [][AggregatorNext]_vars

CrdsNext == \E value \in VersionedCrdsValues : Insert(value)

\* A CRDS store under any sequence of insert calls.
CrdsInit ==
    CrdsNew /\ ClockStart /\ TowerNew /\ PipelineIdle /\ NoCall /\ AggregatorIdle /\ BreakerIdle /\ ShutdownIdle

SpecCrds == CrdsInit /\ [][CrdsNext]_vars

BreakerNext ==
    \/ RecordSuccess
    \/ RecordFailure
    \/ CanCall
    \/ \E outcomes \in FetchOutcomes : FetchPriceRobust(outcomes)
    \/ TimePasses
    \/ \E secs \in WaitSecs : Wait(secs)

\* A circuit breaker under any sequence of calls, as time passes.
BreakerInit ==
    BreakerNew /\ ClockStart /\ TowerNew /\ PipelineIdle /\ NoCall /\ AggregatorIdle /\ CrdsIdle /\ ShutdownIdle

SpecBreaker == BreakerInit /\ [][BreakerNext]_vars

RobustFetcherNext ==
    \/ \E symbol \in Symbols, exchange \in Exchanges, outcomes \in SteadyOutcomes :
          FetchFromExchange(symbol, exchange, outcomes)
    \/ \E secs \in WaitSecs : Wait(secs)

\* A RobustFetcher under any sequence of fetch_price_robust calls.
RobustFetcherInit ==
    BreakerIdle /\ ClockStart /\ TowerNew /\ PipelineIdle /\ NoCall /\ AggregatorIdle /\ CrdsIdle /\ ShutdownIdle

SpecRobustFetcher == RobustFetcherInit /\ [][RobustFetcherNext]_vars

ShutdownNext ==
    \/ FetcherTick
    \/ \E assets \in 0..MaxAssets : FetcherFetched(assets)
    \/ FetcherSend
    \/ PeerSend
    \/ \E channel \in {"price", "gossip"} : AggregatorRecv(channel)
    \/ AggregatorTick
    \/ AggregatorSend
    \/ ConsensusRecv
    \/ ConsensusSend
    \/ SequencerRecv
    \/ \E stage \in Stages : StageShutdown(stage)
    \/ Broadcast
    \/ Join

\* start_node and its seven tasks.
ShutdownSpecInit ==
    ShutdownInit /\ ClockStart /\ TowerNew /\ PipelineIdle /\ NoCall /\ AggregatorIdle
    /\ CrdsIdle /\ BreakerIdle

\* The stages that leave their select! to send, and so are not at it all the
\* time.
SendingStages == {"fetcher", "aggregator", "consensus"}

\* A send that can complete does (the runtime wakes the sender when there is
\* room or the receiver is dropped), and a join that can complete does. The
\* HTTP requests of a fetcher tick end: reqwest::Client::new() sets no
\* timeout, so this is assumed of the exchanges. A
\* stage that is at its select! with the shutdown message pending takes that
\* branch in the end, also when it is there again and again rather than all
\* the time (select! polls its branches in random order).
ShutdownFairness ==
    /\ WF_vars(\E assets \in 0..MaxAssets : FetcherFetched(assets))
    /\ WF_vars(FetcherSend)
    /\ WF_vars(AggregatorSend)
    /\ WF_vars(ConsensusSend)
    /\ WF_vars(Join)
    /\ \A stage \in Stages \ SendingStages : WF_vars(StageShutdown(stage))
    /\ \A stage \in SendingStages : SF_vars(StageShutdown(stage))

SpecShutdown == ShutdownSpecInit /\ [][ShutdownNext]_vars /\ ShutdownFairness

(***************************************************************************)
(* Properties                                                              *)
(***************************************************************************)
\* The vote node n put in a ConsensusResult's votes map.
LocalVote(entry) == entry.result.votes[entry.node]

\* C1: across the batches a node's consensus stage processes, the node
\* creates no local votes for two different roots in one slot: the result
\* emitted for a later batch of a slot carries the root first voted there.
C1_OneLocalVotePerSlot ==
    \A i, j \in 1..Len(consensus_log) :
        (/\ i < j
         /\ consensus_log[i].node = consensus_log[j].node
         /\ consensus_log[i].slot = consensus_log[j].slot)
        => LocalVote(consensus_log[j]).root_hash = LocalVote(consensus_log[i]).root_hash

\* A record_vote(b, r, _) call is made in this step, on the tower as it is
\* before the step.
RecordVoteCalled(b, r) ==
    /\ tower_call'.op = "record_vote"
    /\ tower_call'.batch_number = b
    /\ tower_call'.root = r

\* C2: replay protection. When vote_history maps slot s to a root other
\* than r, can_vote(s, r) is false and record_vote(s, r, _) returns an error
\* and leaves votes, vote_history, lockouts and last_voted_batch as they were.
C2_ReplayProtection ==
    [][\A b \in Slots, r \in Roots :
          (/\ RecordVoteCalled(b, r)
           /\ b \in DOMAIN vote_history
           /\ vote_history[b] # r)
          => /\ ~can_vote(vote_history, lockouts, b, r)
             /\ tower_call'.ok = FALSE
             /\ UNCHANGED <<votes, vote_history, lockouts, last_voted_batch>>]_vars

\* C2 witness: a record_vote for a slot already voted with another root was refused.
C2_Witness ==
    /\ tower_call.op = "record_vote"
    /\ tower_call.ok = FALSE
    /\ tower_call.batch_number \in DOMAIN vote_history
    /\ vote_history[tower_call.batch_number] # tower_call.root
    /\ Len(votes) > 0

\* C3: at most one root is recorded per slot: no two votes the tower holds,
\* in the votes deque or in vote_history, have the same batch number and
\* different roots.
C3_OneRootPerSlot ==
    /\ \A i, j \in 1..Len(votes) :
          votes[i].batch_number = votes[j].batch_number => votes[i].root = votes[j].root
    /\ \A i \in 1..Len(votes) :
          votes[i].batch_number \in DOMAIN vote_history
          => vote_history[votes[i].batch_number] = votes[i].root

\* C4: in a sequence of record_vote calls (no update_root), a vote accepted
\* at slot s finds the lockout of every earlier vote at a slot s' < s
\* expired: s >= s' + 2^confirmation_count.
C4_AcceptedVoteNotLockedOut ==
    [][\A b \in Slots, r \in Roots :
          (/\ RecordVoteCalled(b, r)
           /\ tower_call'.ok
           /\ root_batch = None)
          => \A i \in 1..Len(lockouts) :
                lockouts[i].batch_number < b
                => b >= lockouts[i].batch_number + Pow2(lockouts[i].confirmation_count)]_vars

\* The tower after exactly the accepted votes at the given slots, oldest
\* first, and no update_root.
VotedExactly(slots) ==
    /\ root_batch = None
    /\ Len(votes) = Len(slots)
    /\ \A i \in 1..Len(slots) : votes[Len(slots) + 1 - i].batch_number = slots[i]

\* C5: lockout expiry scenario. On a fresh tower record_vote at slot 10 and
\* then at slot 11 both succeed; after the vote at 11 the slot-10 lockout has
\* confirmation_count 2, a vote for slot 13 is refused and a vote for slot 14
\* is permitted.
C5_LockoutExpiryScenario ==
    [][\A r \in Roots :
          /\ (VotedExactly(<< >>) /\ RecordVoteCalled(10, r)) => tower_call'.ok
          /\ (VotedExactly(<<10>>) /\ RecordVoteCalled(11, r)) => tower_call'.ok
          /\ VotedExactly(<<10, 11>>)
             => /\ lockouts[1] = [batch_number |-> 10, confirmation_count |-> 2]
                /\ RecordVoteCalled(13, r) => ~tower_call'.ok
                /\ RecordVoteCalled(14, r) => tower_call'.ok]_vars

\* C6: re-voting is a no-op. record_vote(s, r, _) on a tower whose
\* vote_history maps s to r succeeds and leaves the votes deque,
\* vote_history and the lockouts as they were.
C6_RevoteIsNoOp ==
    [][\A b \in Slots, r \in Roots :
          (/\ RecordVoteCalled(b, r)
           /\ b \in DOMAIN vote_history
           /\ vote_history[b] = r)
          => /\ tower_call'.ok
             /\ UNCHANGED <<votes, vote_history, lockouts>>]_vars

\* The stake the votes of a map give to root r.
StakeFor(vs, r) == SumStake(vs, {v \in DOMAIN vs : vs[v].root_hash = r})

\* ceil(2 * total_stake / 3)
TwoThirdsCeil(total_stake) == (2 * total_stake + 2) \div 3

\* The roots with the greatest summed stake whose stake is a quorum.
QuorumRoots(vs, total_stake) ==
    {r \in Roots :
        /\ \E v \in DOMAIN vs : vs[v].root_hash = r
        /\ \A q \in Roots : StakeFor(vs, q) <= StakeFor(vs, r)
        /\ StakeFor(vs, r) >= TwoThirdsCeil(total_stake)}

\* C7: tally_votes gives consensus_root = r exactly when r is the root with
\* the greatest summed stake and that stake is >= ceil(2 * total_stake / 3),
\* and none otherwise; verify_quorum is true under the same condition.
C7_TallyQuorum ==
    /\ fn_call.fn = "tally_votes"
       => LET quorum == QuorumRoots(fn_call.votes, fn_call.total_stake)
          IN  IF quorum = {}
              THEN fn_call.result.consensus_root = None
              ELSE fn_call.result.consensus_root \in {Some(r) : r \in quorum}
    /\ fn_call.fn = "verify_quorum"
       => (fn_call.result <=> QuorumRoots(fn_call.votes, fn_call.total_stake) # {})

\* The stake of the validators of a list whose pubkey is at most p.
StakeUpTo(validators, p) ==
    LET RECURSIVE S(_)
        S(i) == IF i = 0 THEN 0
                ELSE (IF validators[i][1] <= p THEN validators[i][2] ELSE 0) + S(i - 1)
    IN  S(Len(validators))

\* C8: select_leader returns the first validator, in pubkey-ascending order,
\* whose cumulative stake strictly exceeds (slot * 12345) mod total_stake,
\* whatever the order of the list it is given.
C8_LeaderByPubkeyOrder ==
    fn_call.fn = "select_leader"
    => LET validators == fn_call.validators
           total_stake == CumulativeStake(validators, Len(validators))
           keys == {validators[i][1] : i \in 1..Len(validators)}
       IN  total_stake > 0
           => LET target == (fn_call.slot * 12345) % total_stake
                  leader == CHOOSE p \in keys :
                               /\ StakeUpTo(validators, p) > target
                               /\ \A q \in keys : q < p => StakeUpTo(validators, q) <= target
              IN  fn_call.result = Some(leader)

\* Every node is configured with a governance program id that parses, and
\* the stake on the chain is positive.
HonestNodesPositiveStake ==
    /\ \A n \in Nodes : program_id_ok[n]
    /\ \E n \in Nodes : /\ staker_accounts[n].kind = "staker"
                        /\ staker_accounts[n].staked_amount > 0

\* C9: leader uniqueness. With a fixed set of stakers of positive total
\* stake, at most one node emits a ConsensusResult with is_leader = true
\* for a slot (a slot the chain reported: get_slot succeeded).
C9_OneLeaderPerSlot ==
    HonestNodesPositiveStake
    => \A i, j \in 1..Len(consensus_log) :
          (/\ consensus_log[i].slot >= 1
           /\ consensus_log[i].slot = consensus_log[j].slot
           /\ consensus_log[i].result.is_leader
           /\ consensus_log[j].result.is_leader)
          => consensus_log[i].node = consensus_log[j].node

\* C10: the sequencer attempts a submission only for a result with
\* is_leader = true and consensus_root not none; any other result is dropped.
C10_SubmitOnlyRatifiedLeader ==
    \A n \in Nodes :
        sequencer_last[n] # None
        => (sequencer_last[n][1].submitted
            => (/\ sequencer_last[n][1].result.is_leader
                /\ sequencer_last[n][1].result.consensus_root # None))

\* C11: when total_stake is 0 (no validator holds stake), the ConsensusResult
\* emitted for a batch has consensus_root = none and is_leader = false.
C11_ZeroStakeNoConsensus ==
    \A i \in 1..Len(consensus_log) :
        consensus_log[i].result.total_stake = 0
        => /\ consensus_log[i].result.consensus_root = None
           /\ consensus_log[i].result.is_leader = FALSE

\* C12: when the validator-set query fails the stage reuses the last set it
\* obtained. A node whose governance program id does not parse fails every
\* query, so it never obtained a set: each result it emits has
\* total_stake = 0, consensus_root = none and is_leader = false.
C12_QueryFailureEmitsNoConsensus ==
    \A i \in 1..Len(consensus_log) :
        ~program_id_ok[consensus_log[i].node]
        => /\ consensus_log[i].result.total_stake = 0
           /\ consensus_log[i].result.consensus_root = None
           /\ consensus_log[i].result.is_leader = FALSE

\* The updates for an asset among a sequence of updates, in order.
UpdatesFor(received, asset) == SelectSeq(received, LAMBDA u : u.asset = asset)

\* The reporter keys seen for an asset among a sequence of updates.
ReportersOf(received, asset) ==
    {received[i].node_pubkey : i \in {j \in 1..Len(received) : received[j].asset = asset}}

\* The last observation of a reporter for an asset among a sequence of updates.
LatestObservation(received, asset, reporter) ==
    LET seen == {i \in 1..Len(received) :
                    received[i].asset = asset /\ received[i].node_pubkey = reporter}
    IN  received[CHOOSE i \in seen : \A j \in seen : j <= i].price

\* The median, as a fixed-point price, of the latest observations of the
\* reporters of an asset.
MedianOfLatest(received, asset) ==
    LET latest == [k \in ReportersOf(received, asset) |-> LatestObservation(received, asset, k)]
    IN  price_i64(median(sorted_values(latest, DOMAIN latest)))

TickTaken == aggregator_last.branch = "tick"

\* C13: every leaf of an emitted batch is derived from at least
\* min_publishers distinct reporter keys, each reporter counted once with
\* the latest observation received from it in the tick; an asset with fewer
\* distinct reporters produces no leaf.
C13_LeafFromQuorumOfReporters ==
    TickTaken
    => \A b \in 1..Len(aggregator_last.sent) :
          LET feeds == aggregator_last.sent[b].feeds
              received == aggregator_last.received
          IN  /\ \A i \in 1..Len(feeds) :
                    LET reporters == ReportersOf(received, feeds[i].asset_id)
                    IN  /\ Cardinality(reporters) >= aggregator_last.min_publishers
                        /\ Len(feeds[i].publishers) = Cardinality(reporters)
                        /\ {feeds[i].publishers[k] : k \in 1..Len(feeds[i].publishers)} = reporters
                        /\ feeds[i].price = MedianOfLatest(received, feeds[i].asset_id)
              /\ \A a \in Assets :
                    Cardinality(ReportersOf(received, a)) < aggregator_last.min_publishers
                    => \A i \in 1..Len(feeds) : feeds[i].asset_id # a

\* C13 witness: a batch was emitted for an asset one of whose reporters
\* was heard twice, with different prices, since the previous tick.
C13_Witness ==
    /\ TickTaken
    /\ aggregator_last.sent # << >>
    /\ \E i, j \in 1..Len(aggregator_last.received) :
          /\ i < j
          /\ aggregator_last.received[i].asset = aggregator_last.received[j].asset
          /\ aggregator_last.received[i].node_pubkey = aggregator_last.received[j].node_pubkey
          /\ aggregator_last.received[i].price # aggregator_last.received[j].price
          /\ aggregator_last.sent[1].feeds[1].asset_id = aggregator_last.received[i].asset

\* C14: in every emitted batch the leaves are in strictly ascending order
\* of asset_id.
C14_LeavesAscendingByAsset ==
    TickTaken
    => \A b \in 1..Len(aggregator_last.sent) :
          LET feeds == aggregator_last.sent[b].feeds
          IN  \A i, j \in 1..Len(feeds) : i < j => feeds[i].asset_id < feeds[j].asset_id

\* The hashed fields of the leaves of a batch, in order.
Leaves(batch) ==
    [i \in 1..Len(batch.feeds) |->
        <<batch.feeds[i].asset_id, batch.feeds[i].price,
          batch.feeds[i].confidence, batch.feeds[i].timestamp>>]

\* C15: determinism. Two aggregators given the same set of points, one
\* point per reporter and asset, in the same tick produce the same leaves
\* in the same order and the same root.
C15_Determinism ==
    fn_call.fn = "build_merkle_batch"
    => /\ Leaves(fn_call.batches[1]) = Leaves(fn_call.batches[2])
       /\ fn_call.batches[1].root = fn_call.batches[2].root

\* The depth of a tree of n leaves.
RECURSIVE Depth(_)
Depth(n) == IF n <= 1 THEN 0 ELSE 1 + Depth((n + 1) \div 2)

\* C16: Merkle proof round trip. For every batch and leaf index i the proof
\* get_merkle_proof(tree, i) has the length of the tree's depth and, folded
\* from the leaf with the verifier's rule, yields the batch root; a leaf that
\* is not in the batch does not verify against the root with that proof.
C16_ProofRoundTrip ==
    fn_call.fn = "get_merkle_proof"
    => LET feeds == fn_call.feeds
           leaf == feeds[fn_call.leaf_index + 1]
           root == fn_call.tree[Len(fn_call.tree)]
       IN  /\ Len(fn_call.proof) = Depth(Len(feeds))
           /\ verify_price(leaf.asset_id, leaf.price, leaf.confidence, leaf.timestamp,
                           root, fn_call.proof)
           /\ \A other \in {FeedData(a, leaf.price, leaf.confidence, leaf.timestamp, <<1>>) :
                              a \in (1..(MaxLeaves + 1)) \ {feeds[i].asset_id : i \in 1..Len(feeds)}} :
                 ~verify_price(other.asset_id, other.price, other.confidence,
                               other.timestamp, root, fn_call.proof)

\* C17: the aggregator accepts a point, from the local or the gossip
\* channel, only if now - ts <= 60 s when it is accepted, and no point older
\* than 60 s contributes to a batch.
C17_StalePointsRejected ==
    /\ aggregator_last.branch \in {"price_rx", "gossip_rx"}
       => ((\E i \in 1..Len(received_since_tick) :
               received_since_tick[i] = aggregator_last.update)
           => aggregator_last.now - aggregator_last.update.timestamp <= 60)
    /\ TickTaken
       => \A b \in 1..Len(aggregator_last.sent) :
             \A i \in 1..Len(aggregator_last.sent[b].feeds) :
                \A k \in 1..Len(aggregator_last.received) :
                   aggregator_last.received[k].asset = aggregator_last.sent[b].feeds[i].asset_id
                   => aggregator_last.sent[b].timestamp
                      - aggregator_last.received[k].timestamp <= 60

\* The cache holding a sequence of updates, grouped by asset.
CacheOf(received) ==
    [a \in {received[i].asset : i \in 1..Len(received)} |-> UpdatesFor(received, a)]

\* C18: at a tick the aggregator emits at most one batch, and none when no
\* asset reached the min_publishers quorum; an emitted batch has at least
\* one leaf and is computed from the points received since the previous
\* tick and from nothing else.
C18_OneBatchPerTick ==
    TickTaken
    => LET sent == aggregator_last.sent
           received == aggregator_last.received
       IN  /\ Len(sent) <= 1
           /\ (\A a \in Assets :
                  Cardinality(ReportersOf(received, a)) < aggregator_last.min_publishers)
              => sent = << >>
           /\ \A b \in 1..Len(sent) :
                 /\ Len(sent[b].feeds) >= 1
                 /\ sent[b] \in build_merkle_batch(CacheOf(received),
                                                   aggregator_last.min_publishers,
                                                   sent[b].timestamp)

\* C18 witness: a tick emitted one batch, with a leaf for each of two
\* assets heard since the previous tick.
C18_Witness ==
    /\ TickTaken
    /\ Len(aggregator_last.sent) = 1
    /\ Len(aggregator_last.sent[1].feeds) = 2
    /\ Len(aggregator_last.received) = 2

\* insert(value) is the call this step makes.
InsertCalled(value) == crds_call'.op = "insert" /\ crds_call'.value = value

\* C19: insert(v) succeeds iff no entry is stored under v's label or
\* v.wallclock is strictly greater than the stored entry's wallclock; and
\* after insert(v) has succeeded, insert(v') with the same label and
\* v'.wallclock <= v.wallclock leaves v stored under the label.
C19_InsertNewerWins ==
    [][\A value \in VersionedCrdsValues :
          InsertCalled(value)
          => /\ crds_call'.ok
                <=> (\/ label(value.value) \notin DOMAIN crds_table
                     \/ value.wallclock > crds_table[label(value.value)].wallclock)
             /\ (/\ crds_call.op = "insert"
                 /\ crds_call.ok
                 /\ label(crds_call.value.value) = label(value.value)
                 /\ value.wallclock <= crds_call.value.wallclock)
                => /\ label(value.value) \in DOMAIN crds_table'
                   /\ crds_table'[label(value.value)] = crds_call.value]_vars

\* C20: from Closed the breaker stays Closed while fewer than threshold
\* consecutive failures have been recorded, a success in Closed resetting
\* the failure count, and becomes Open as soon as the number of consecutive
\* failures reaches threshold.
C20_OpensAtThreshold ==
    [][breaker.state = "Closed"
       => /\ breaker.failure_count = consecutive_failures
          /\ breaker'.state = IF consecutive_failures' >= breaker.threshold
                              THEN "Open" ELSE "Closed"
          /\ breaker_call'.op = "record_success" => breaker'.failure_count = 0]_vars

\* C20 witness: the breaker has just opened on the failure that took the
\* consecutive failures to a threshold of 2 or more, after successes.
C20_Witness ==
    /\ breaker.state = "Open"
    /\ breaker_call.op = "record_failure"
    /\ breaker.threshold >= 2
    /\ consecutive_failures = breaker.threshold
    /\ breaker.success_count >= 1

\* C21: a HalfOpen breaker has recorded fewer than 3 successes since it
\* became HalfOpen; the success that makes them 3 leaves it Closed with
\* failure_count = 0 and an earlier success leaves it HalfOpen; a failure
\* recorded in HalfOpen leaves it Open with last_failure_time the time of that
\* failure; nothing else takes it out of HalfOpen.
C21_HalfOpenCloses ==
    [][breaker.state = "HalfOpen"
       => /\ half_open_successes < 3
          /\ CASE half_open_successes' = half_open_successes + 1 ->
                     IF half_open_successes' = 3
                     THEN breaker'.state = "Closed" /\ breaker'.failure_count = 0
                     ELSE breaker'.state = "HalfOpen"
               [] consecutive_failures' = consecutive_failures + 1 ->
                     /\ breaker'.state = "Open"
                     /\ breaker'.last_failure_time = Some(clock')
               [] OTHER -> breaker'.state = "HalfOpen"]_vars

\* C21 witness: the third success recorded in HalfOpen has just closed the
\* breaker.
C21_Witness ==
    /\ breaker.state = "Closed"
    /\ breaker_call.op = "record_success"
    /\ half_open_successes = 3
    /\ breaker.failure_count = 0

\* C22: while the breaker is Open and no more than timeout_secs seconds have
\* passed since the last recorded failure, can_call returns false and
\* fetch_price_robust fails with no fetch attempt, both leaving the breaker
\* as it was; once more have passed, can_call returns true and leaves the
\* breaker HalfOpen, and fetch_price_robust makes a fetch attempt; no other
\* call and no passing of time takes the breaker out of Open.
C22_OpenUntilTimeout ==
    [][breaker.state = "Open"
       => LET elapsed == /\ breaker.last_failure_time # None
                         /\ clock - breaker.last_failure_time[1] > breaker.timeout_secs
          IN  IF clock' # clock
              THEN breaker' = breaker
              ELSE CASE breaker_call'.op = "can_call" ->
                          /\ breaker_call'.result = elapsed
                          /\ breaker'.state = IF elapsed THEN "HalfOpen" ELSE "Open"
                     [] breaker_call'.op = "fetch_price_robust" ->
                          IF elapsed
                          THEN breaker_call'.attempts >= 1
                          ELSE /\ breaker_call'.result = None
                               /\ breaker_call'.attempts = 0
                               /\ breaker' = breaker
                     [] OTHER -> breaker'.state = "Open"]_vars

\* C22 witness: can_call has just moved a breaker with the 60 s timeout from
\* Open to HalfOpen.
C22_Witness ==
    /\ breaker.state = "HalfOpen"
    /\ breaker.timeout_secs = 60
    /\ breaker_call.op = "can_call"
    /\ breaker_call.result
    /\ clock - breaker.last_failure_time[1] > 60

\* The positions of the lockouts at slot R or later, and the position each
\* takes once the lockouts before it that are below R are gone.
KeptLockouts(R) == {i \in 1..Len(lockouts) : lockouts[i].batch_number >= R}

KeptPosition(R, i) == Cardinality({j \in KeptLockouts(R) : j <= i})

\* C23: update_root(R) leaves root_batch = Some(R); vote_history keeps exactly
\* its entries at slots >= R, with their roots; lockouts keeps exactly its
\* entries at slots >= R, in their order and with their confirmation counts;
\* last_voted_batch is unchanged.
C23_UpdateRootFrame ==
    [][tower_call'.op = "update_root"
       => LET R == tower_call'.batch_number
          IN  /\ root_batch' = Some(R)
              /\ DOMAIN vote_history' = {s \in DOMAIN vote_history : s >= R}
              /\ \A s \in DOMAIN vote_history' : vote_history'[s] = vote_history[s]
              /\ Len(lockouts') = Cardinality(KeptLockouts(R))
              /\ \A i \in KeptLockouts(R) : lockouts'[KeptPosition(R, i)] = lockouts[i]
              /\ last_voted_batch' = last_voted_batch]_vars

\* C23 witness: update_root(R) has just removed the entries of a vote below R
\* and kept a lockout at R with a confirmation count above 1 and one above R.
C23_Witness ==
    /\ tower_call.op = "update_root"
    /\ root_batch = Some(tower_call.batch_number)
    /\ \E i \in 1..Len(votes) :
          /\ votes[i].batch_number < tower_call.batch_number
          /\ votes[i].batch_number \notin DOMAIN vote_history
    /\ \E i \in 1..Len(lockouts) :
          /\ lockouts[i].batch_number = tower_call.batch_number
          /\ lockouts[i].confirmation_count > 1
    /\ \E i \in 1..Len(lockouts) : lockouts[i].batch_number > tower_call.batch_number
    /\ last_voted_batch # None

\* C24: every slot at or above the root slot at which a vote was accepted,
\* that is every slot of vote_history, still has a lockout.
C24_LockoutsKept ==
    \A s \in DOMAIN vote_history :
        (root_batch = None \/ s >= root_batch[1])
        => \E i \in 1..Len(lockouts) : lockouts[i].batch_number = s

C26_LockoutsDouble ==
    [][/\ (tower_call'.op = "record_vote" /\ tower_call'.ok)
          => /\ Len(lockouts') = Len(lockouts) + 1
             /\ lockouts'[Len(lockouts')] =
                   [batch_number |-> tower_call'.batch_number, confirmation_count |-> 1]
             /\ \A i \in 1..Len(lockouts) :
                   /\ lockouts'[i].batch_number = lockouts[i].batch_number
                   /\ lockouts'[i].confirmation_count = lockouts[i].confirmation_count + 1
       /\ \A i \in 1..Len(lockouts'), t \in Slots :
             is_locked_out_at(lockouts'[i], t)
                <=> t < lockouts'[i].batch_number + 2 ^ lockouts'[i].confirmation_count
       /\ (Len(votes') = 1 /\ Len(lockouts') = 1 /\ votes'[1].batch_number = 10)
          => /\ is_locked_out(lockouts', 10)
             /\ is_locked_out(lockouts', 11)
             /\ ~is_locked_out(lockouts', 12)]_vars

\* C27: the slots a node's consensus stage uses for successive batches never
\* decrease, and a slot used when the get_slot query failed is at least 1
\* more than every slot the node used before.
C27_SlotsNeverDecrease ==
    \A i, j \in 1..Len(consensus_log) :
        (i < j /\ consensus_log[i].node = consensus_log[j].node)
        => /\ consensus_log[i].slot <= consensus_log[j].slot
           /\ ~consensus_log[j].slot_ok => consensus_log[j].slot >= consensus_log[i].slot + 1

\* The batches of the results node n's consensus stage has emitted, in the
\* order of emission.
EmittedBy(log, n) ==
    LET emitted == SelectSeq(log, LAMBDA entry : entry.node = n)
    IN  [i \in 1..Len(emitted) |-> emitted[i].result.batch]

\* C28: a step in which a node's consensus stage receives a batch takes the
\* oldest batch queued and emits exactly one result, carrying that batch, at
\* the tail of the stage's output channel; no other step emits a result, and
\* the channel otherwise only loses its head to the sequencer.
C28_OneResultPerBatch ==
    [][\A n \in Nodes :
          IF Len(batch_rx'[n]) < Len(batch_rx[n])
          THEN /\ batch_rx'[n] = Tail(batch_rx[n])
               /\ Len(consensus_rx'[n]) = Len(consensus_rx[n]) + 1
               /\ SubSeq(consensus_rx'[n], 1, Len(consensus_rx[n])) = consensus_rx[n]
               /\ consensus_rx'[n][Len(consensus_rx'[n])].batch = Head(batch_rx[n])
               /\ EmittedBy(consensus_log', n)
                     = Append(EmittedBy(consensus_log, n), Head(batch_rx[n]))
          ELSE /\ EmittedBy(consensus_log', n) = EmittedBy(consensus_log, n)
               /\ \/ consensus_rx'[n] = consensus_rx[n]
                  \/ /\ consensus_rx[n] # << >>
                     /\ consensus_rx'[n] = Tail(consensus_rx[n])]_vars

\* C28 witness: the output channel of node 1 holds the results of two
\* different batches, in the order in which the stage received them.
C28_Witness ==
    /\ Len(consensus_rx[1]) = 2
    /\ consensus_rx[1][1].batch # consensus_rx[1][2].batch
    /\ EmittedBy(consensus_log, 1) = <<consensus_rx[1][1].batch, consensus_rx[1][2].batch>>
    /\ batch_rx[1] = << >>

\* C29: the parameters a node submits hold the result's consensus root, the
\* number of feeds and the timestamp of its batch, its total_stake, and one
\* vote entry for each vote of the result, with that vote's voter, root,
\* stake and signature.
C29_PayloadCarriesVotes ==
    \A n \in Nodes :
        (sequencer_last[n] # None /\ sequencer_last[n][1].submitted)
        => LET result == sequencer_last[n][1].result
               params == sequencer_last[n][1].params[1]
           IN  /\ result.consensus_root = Some(params.root)
               /\ params.feed_count = Len(result.batch.feeds)
               /\ params.timestamp = result.batch.timestamp
               /\ params.total_stake = result.total_stake
               /\ Len(params.votes) = Cardinality(DOMAIN result.votes)
               /\ \A voter \in DOMAIN result.votes :
                     \E i \in 1..Len(params.votes) :
                        params.votes[i] =
                           [validator |-> voter,
                            root |-> result.votes[voter].root_hash,
                            stake |-> result.votes[voter].stake,
                            signature |-> result.votes[voter].signature]

\* The levels of a flat tree, from the level of `size` nodes that starts after
\* position `start`: a parent of two children is the hash of the two
\* concatenated in one of the two orders, a last node without a partner is
\* itself the node above it, and the level of one node ends the tree.
RECURSIVE LevelsAsClaimed(_, _, _)
LevelsAsClaimed(tree, start, size) ==
    IF size = 1
    THEN start + 1 = Len(tree)
    ELSE /\ \A k \in 1..((size + 1) \div 2) :
               LET parent == tree[start + size + k]
                   left == tree[start + 2 * k - 1]
               IN  IF 2 * k <= size
                   THEN parent \in {hash_data(<<left, tree[start + 2 * k]>>),
                                    hash_data(<<tree[start + 2 * k], left>>)}
                   ELSE parent = left
         /\ LevelsAsClaimed(tree, start + size, (size + 1) \div 2)

\* C30: in the tree built for a list of feeds every parent of two children
\* is the hash of the two concatenated in an order that does not depend on
\* their positions (so two batches whose two leaves are the same hashes have
\* the same root), a node without a partner is carried up unchanged, the
\* last element is the root, and the tree of one feed is its leaf hash alone.
C30_TreeShape ==
    /\ fn_call.fn = "get_merkle_proof"
       => /\ LevelsAsClaimed(fn_call.tree, 0, Len(fn_call.feeds))
          /\ Len(fn_call.feeds) = 1
             => fn_call.tree = <<hash_data(<<leaf_string(fn_call.feeds[1])>>)>>
    /\ fn_call.fn = "build_merkle_batch"
       => /\ \A i \in {1, 2} :
                LET batch == fn_call.batches[i]
                IN  /\ batch.feeds # << >> => batch.root = batch.tree[Len(batch.tree)]
                    /\ Len(batch.feeds) = 1 => batch.tree = <<batch.root>>
          /\ LET first == fn_call.batches[1].tree
                 second == fn_call.batches[2].tree
             IN  (/\ Len(fn_call.batches[1].feeds) = 2
                  /\ Len(fn_call.batches[2].feeds) = 2
                  /\ {first[1], first[2]} = {second[1], second[2]})
                 => first[3] = second[3]

C32_BreakerPerSourceAndAsset ==
    [][(robust_call'.op = "fetch_price_robust" /\ robust_call'.recorded = <<"failure">>)
       => \A exchange \in Exchanges, symbol \in Symbols :
             <<exchange, symbol>> # <<robust_call'.exchange, robust_call'.symbol>>
             => breaker_used(circuit_breakers', symbol, exchange)
                = breaker_used(circuit_breakers, symbol, exchange)]_vars

\* C33: an update the fetcher sends for an asset is computed from prices
\* that all pass validate_price for its symbol, and when no fetched price of
\* the asset is valid the fetcher sends nothing for it.
C33_OnlyValidatedPrices ==
    fn_call.fn = "start_price_fetcher"
    => LET valid == {i \in 1..Len(fn_call.prices) :
                        validate_price(fn_call.symbol, fn_call.prices[i])}
       IN  /\ fn_call.update # None => valid = 1..Len(fn_call.prices)
           /\ valid = {} => fn_call.update = None

\* The sum of (n * v - S)^2 over the n prices v of a list of sum S.
SquaredDeviations(prices) ==
    LET n == Len(prices)
        S == SumSeq([i \in 1..n |-> prices[i].price], n)
    IN  SumSeq([i \in 1..n |-> (n * prices[i].price - S) * (n * prices[i].price - S)], n)

\* C34: remove_outliers returns fewer than 3 prices unchanged; of 3 or more
\* it removes exactly the prices further than 3 standard deviations from the
\* mean, and of 100, 101, 102, 200 it returns 3 prices.
C34_RemoveOutliers ==
    fn_call.fn = "remove_outliers"
    => LET prices == fn_call.prices
           n == Len(prices)
           S == SumSeq([i \in 1..n |-> prices[i].price], n)
       IN  /\ n < 3 => fn_call.filtered = prices
           /\ n >= 3
              => fn_call.filtered =
                    SelectSeq(prices, LAMBDA p :
                        ~(n * (n * p.price - S) * (n * p.price - S) > 9 * SquaredDeviations(prices)))
           /\ [i \in 1..n |-> prices[i].price] = <<100, 101, 102, 200>>
              => Len(fn_call.filtered) = 3

\* C35: two stores that were given the same values of one label, in any two
\* orders, hold the same entry under the label, and its wallclock is the
\* greatest of the values given.
C35_InsertOrderIndependent ==
    fn_call.fn = "Crds::insert"
    => \A first \in fn_call.tables[1], second \in fn_call.tables[2] :
          /\ first = second
          /\ \A l \in DOMAIN first, i \in 1..Len(fn_call.orders[1]) :
                first[l].wallclock >= fn_call.orders[1][i].wallclock

\* The table an accepted insert leaves before any pruning.
BeforePrune == table_insert(crds_table, label(crds_call'.value.value), crds_call'.value)

\* The entries an insert that pruned has removed.
Pruned == DOMAIN BeforePrune \ DOMAIN crds_table'

\* After every insert the table holds at most max_entries entries, and an
\* insert that takes it above max_entries removes entries none of which is
\* newer than an entry kept, the entries kept being left as they were.
PruneRemovesOldest ==
    crds_call'.op = "insert"
    => /\ Cardinality(DOMAIN crds_table') <= crds_max_entries
       /\ crds_call'.pruned <=> (crds_call'.ok /\ Cardinality(DOMAIN BeforePrune) > crds_max_entries)
       /\ crds_call'.pruned
          => /\ DOMAIN crds_table' \subseteq DOMAIN BeforePrune
             /\ \A k \in DOMAIN crds_table' : crds_table'[k] = BeforePrune[k]
             /\ \A r \in Pruned, k \in DOMAIN crds_table' :
                   BeforePrune[r].wallclock <= crds_table'[k].wallclock

C37_QuorumUnique ==
    (/\ fn_call.fn \in {"tally_votes", "verify_quorum"}
     /\ fn_call.total_stake > 0
     /\ SumStake(fn_call.votes, DOMAIN fn_call.votes) <= fn_call.total_stake)
    => LET rs == root_stakes(fn_call.votes)
       IN  /\ Cardinality({r \in DOMAIN rs : rs[r] >= quorum_threshold(fn_call.total_stake)}) <= 1
           /\ Cardinality(tally_votes(fn_call.votes, fn_call.total_stake)) = 1

\* C38: over record_vote and update_root calls last_voted_batch never
\* decreases, and the front of the votes deque is a vote for the highest
\* batch number voted so far.
C38_VotesNonDecreasing ==
    [][/\ (last_voted_batch # None /\ last_voted_batch' # None)
          => last_voted_batch'[1] >= last_voted_batch[1]
       /\ \A i \in 1..Len(votes') : votes'[1].batch_number >= votes'[i].batch_number]_vars

\* C40: the votes deque and the lockouts list hold at most 32 entries each,
\* and every confirmation_count is at most 33, below the 64 at which
\* 2^confirmation_count would leave 64 bits.
C40_TowerBounded ==
    /\ Len(votes) <= 32
    /\ Len(lockouts) <= 32
    /\ \A i \in 1..Len(lockouts) :
          /\ lockouts[i].confirmation_count <= 33
          /\ lockouts[i].confirmation_count < 64

\* C40 witness: the deque and the list are full, after more than 32 votes,
\* and the oldest lockout left has been confirmed by the 31 votes after it.
C40_Witness ==
    /\ Len(votes) = 32
    /\ Len(lockouts) = 32
    /\ lockouts[1].confirmation_count = 32
    /\ tower_call.op = "record_vote"

\* C39: in a sequence of inserts, once a value has been accepted under a
\* label no later insert under that label of a value whose wallclock is not
\* greater succeeds, whatever is inserted under other labels in between.
C39_WallclockNeverBack ==
    fn_call.fn = "Crds::insert sequence"
    => \A i, j \in 1..Len(fn_call.values) :
          (/\ i < j
           /\ fn_call.results[i]
           /\ label(fn_call.values[i].value) = label(fn_call.values[j].value)
           /\ fn_call.values[j].wallclock <= fn_call.values[i].wallclock)
          => ~fn_call.results[j]

====
